---- MODULE Spec2Model ----
(***************************************************************************)
(* Model of the bot worker (bot/run-bot.mjs), its Store (bot/db.mjs,       *)
(* lib/db.ts) and the config API (app/api/config/route.ts).                *)
(*                                                                         *)
(* Units.  JavaScript numbers are modelled by scaled integers:             *)
(*   prices and money amounts   tenths of a quote unit   (1000 = 100.0)    *)
(*   percentages                tenths of a percent      (10 = 1.0 %)      *)
(*   quantities                 multiples of 0.0001 base, the default      *)
(*                              quantityStep; prices are per such unit     *)
(* Comparisons of quotients are done by cross-multiplication, so every     *)
(* threshold comparison is exact.  A JavaScript null that only takes part  *)
(* in arithmetic is modelled by 0 (null + q = q in JavaScript).            *)
(***************************************************************************)
EXTENDS Integers, Sequences, FiniteSets, TLC

\* ------------------------------------------------------------------ bounds
MaxLoops == 2
MaxTicks == 2
MaxOps == 2
MaxNow == 2
MaxMoves == 1
MaxBots == 2
MaxSeries == 4    \* longest close series given to computeSignal on its own
MaxPeriod == 4    \* largest slowPeriod given to computeSignal on its own

\* ------------------------------------------------------- program constants
DayMs == 1
MinNotional == 50
DefaultStopLoss == 10
DefaultTakeProfit == 15
DefaultMaxDaily == 50
DefaultMaxTotal == 100
DefaultInitialQuote == 10000

BotIds == 1 .. MaxBots
Loops == 1 .. MaxLoops
Envs == {"testnet", "mainnet"}

Abs(x) == IF x < 0 THEN -x ELSE x
Max(a, b) == IF a >= b THEN a ELSE b

\* ------------------------------------------------------------ Signal Engine
RECURSIVE SumLast(_, _)
SumLast(values, k) ==
  IF k = 0 THEN 0
  ELSE values[Len(values)] + SumLast(SubSeq(values, 1, Len(values) - 1), k - 1)

\* sma returns the mean as the pair sum / n, or the null average
NullAvg == [isNull |-> TRUE, sum |-> 0, n |-> 1]
\* the mean of the first period values instead of the last
smaMutant(values, period) ==
  IF Len(values) < period THEN NullAvg
  ELSE [isNull |-> FALSE, sum |-> SumLast(SubSeq(values, 1, period), period),
        n |-> period]

sma(values, period) ==
  IF Len(values) < period THEN NullAvg
  ELSE [isNull |-> FALSE, sum |-> SumLast(values, period), n |-> period]

\* the window sums compared instead of the means
AvgGtMutant(a, b) == a.sum > b.sum

AvgGt(a, b) == a.sum * b.n > b.sum * a.n
AvgLt(a, b) == a.sum * b.n < b.sum * a.n

\* without the null guard: a null average compares as 0
computeSignalMutant(closes, fastPeriod, slowPeriod) ==
  LET fast == sma(closes, fastPeriod)
      slow == sma(closes, slowPeriod)
  IN  IF AvgGt(fast, slow) THEN [signal |-> "LONG", fast |-> fast, slow |-> slow]
      ELSE IF AvgLt(fast, slow) THEN [signal |-> "SHORT", fast |-> fast, slow |-> slow]
      ELSE [signal |-> "HOLD", fast |-> fast, slow |-> slow]

computeSignal(closes, fastPeriod, slowPeriod) ==
  LET fast == sma(closes, fastPeriod)
      slow == sma(closes, slowPeriod)
  IN  IF fast.isNull \/ slow.isNull THEN [signal |-> "HOLD", fast |-> fast, slow |-> slow]
      ELSE IF AvgGt(fast, slow) THEN [signal |-> "LONG", fast |-> fast, slow |-> slow]
      ELSE IF AvgLt(fast, slow) THEN [signal |-> "SHORT", fast |-> fast, slow |-> slow]
      ELSE [signal |-> "HOLD", fast |-> fast, slow |-> slow]

\* -------------------------------------------------------------- Risk Engine
\* roundStep(value, step) for value = num / den and an integer step >= 1
roundStep(num, den, step) == ((num \div den) \div step) * step

NoSlTp == [fires |-> FALSE, reason |-> "none", pnlNeg |-> FALSE]

\* position = [positionAmt, entryPrice, markPrice]; markPrice 0 stands for a
\* missing mark price.  pnlPercent = (mark - entry) / entry * 100 is compared
\* with the percentages (tenths of a percent) after multiplying by entry * 10.
checkStopLossTakeProfit(position, config) ==
  LET positionAmt == Abs(position.positionAmt)
      entryPrice == position.entryPrice
      markPrice == IF position.markPrice = 0 THEN entryPrice ELSE position.markPrice
      isLong == position.positionAmt > 0
      pnlNum == (markPrice - entryPrice) * 1000
      actualPnl == IF isLong THEN pnlNum ELSE -pnlNum
      stopLoss == IF config.stopLossPercent = 0 THEN DefaultStopLoss
                  ELSE config.stopLossPercent
      takeProfit == IF config.takeProfitPercent = 0 THEN DefaultTakeProfit
                    ELSE config.takeProfitPercent
  IN  IF positionAmt = 0 THEN NoSlTp
      ELSE IF entryPrice = 0 \/ markPrice = 0 THEN NoSlTp
      ELSE IF actualPnl <= -(stopLoss * entryPrice)
           THEN [fires |-> TRUE, reason |-> "STOP_LOSS", pnlNeg |-> actualPnl < 0]
      ELSE IF actualPnl >= takeProfit * entryPrice
           THEN [fires |-> TRUE, reason |-> "TAKE_PROFIT", pnlNeg |-> actualPnl < 0]
      ELSE NoSlTp

\* checkMaxLoss mutates runtime (the daily reset); the mutated runtime is
\* returned in field rt.  limit = W * percent / 100 is compared after
\* multiplying both sides by 1000.
checkMaxLossMutant(runtime, config, walletBalance, clock) ==
  LET rt == IF clock - runtime.dailyResetTime > DayMs
            THEN [runtime EXCEPT !.dailyLoss = 0, !.dailyResetTime = clock]
            ELSE runtime
      cleared == [rt EXCEPT !.dailyLoss = 0, !.totalLoss = 0]
      maxDailyPercent == IF config.maxDailyLossPercent = 0 THEN DefaultMaxDaily
                         ELSE config.maxDailyLossPercent
      maxTotalPercent == IF config.maxTotalLossPercent = 0 THEN DefaultMaxTotal
                         ELSE config.maxTotalLossPercent
  IN  IF rt.dailyLoss * 1000 >= walletBalance * maxDailyPercent
      THEN [allowed |-> FALSE, reason |-> "MAX_DAILY_LOSS", rt |-> cleared]
      ELSE IF rt.totalLoss * 1000 >= walletBalance * maxTotalPercent
      THEN [allowed |-> FALSE, reason |-> "MAX_TOTAL_LOSS", rt |-> cleared]
      ELSE [allowed |-> TRUE, reason |-> "none", rt |-> rt]

checkMaxLoss(runtime, config, walletBalance, clock) ==
  LET rt == IF clock - runtime.dailyResetTime > DayMs
            THEN [runtime EXCEPT !.dailyLoss = 0, !.dailyResetTime = clock]
            ELSE runtime
      maxDailyPercent == IF config.maxDailyLossPercent = 0 THEN DefaultMaxDaily
                         ELSE config.maxDailyLossPercent
      maxTotalPercent == IF config.maxTotalLossPercent = 0 THEN DefaultMaxTotal
                         ELSE config.maxTotalLossPercent
  IN  IF rt.dailyLoss * 1000 >= walletBalance * maxDailyPercent
      THEN [allowed |-> FALSE, reason |-> "MAX_DAILY_LOSS", rt |-> rt]
      ELSE IF rt.totalLoss * 1000 >= walletBalance * maxTotalPercent
      THEN [allowed |-> FALSE, reason |-> "MAX_TOTAL_LOSS", rt |-> rt]
      ELSE [allowed |-> TRUE, reason |-> "none", rt |-> rt]

checkCooldown(runtime, config) ==
  LET cooldown == config.cooldownCandles
  IN  IF cooldown = 0 THEN TRUE
      ELSE runtime.candleCount - runtime.lastOrderCandle >= cooldown

\* ------------------------------------------------- Order Execution Gateway
DefaultVirtualBalance ==
  [has |-> TRUE, initialQuoteBalance |-> DefaultInitialQuote,
   currentQuoteBalance |-> DefaultInitialQuote, currentBaseBalance |-> 0]

updateVirtualBalance(virtualBalance, side, qty, price) ==
  LET vb == IF virtualBalance.has THEN virtualBalance ELSE DefaultVirtualBalance
  IN  IF side = "BUY"
      THEN [vb EXCEPT !.currentQuoteBalance = @ - qty * price,
                      !.currentBaseBalance = @ + qty]
      ELSE IF side = "SELL"
      THEN [vb EXCEPT !.currentQuoteBalance = @ + qty * price,
                      !.currentBaseBalance = @ - qty]
      ELSE vb

\* ------------------------------------------------------------------ state
VARIABLES
  proc,            \* main(): "init", "running" or "fatal"
  env,             \* process.env: which of the four credentials are set
  fkEnforced,      \* whether the SQLite build enforces FOREIGN KEY clauses
  bots,            \* Store table bots: id -> row
  botStates,       \* Store table bot_states: id -> snapshot (0 is 'main')
  runningBots,     \* main(): the runningBots map (its key set)
  botRuntimeData,  \* the module-level botRuntimeData map: id -> runtime
  loop,            \* the runBot invocations: slot -> locals and position
  clock,           \* Date.now(), in days
  exch,            \* the exchange: candles, mark price, accounts, positions
  tickLog,         \* history: what the current or last tick of a slot did
  ops,             \* number of config API operations so far
  nextId,          \* the id the next POST create generates (Date.now())
  moves,           \* number of market moves so far
  fnIn,            \* input of the pure-function harness
  fnOut,           \* output of the pure-function harness
  ui               \* the dashboard page: its React state

vars == <<proc, env, fkEnforced, bots, botStates, runningBots, botRuntimeData,
          loop, clock, exch, tickLog, ops, nextId, moves, fnIn, fnOut, ui>>

\* ----------------------------------------------------------------- records
defaultBotConfig ==
  [enabled |-> FALSE, market |-> "spot", useTestnet |-> TRUE, dryRun |-> TRUE,
   fastPeriod |-> 9, slowPeriod |-> 21,
   orderQuoteAmount |-> 200, quantityStep |-> 1,
   stopLossPercent |-> 10, takeProfitPercent |-> 15,
   maxDailyLossPercent |-> 50, maxTotalLossPercent |-> 100,
   preventDuplicateOrders |-> TRUE, cooldownCandles |-> 3,
   virtualBalance |-> DefaultVirtualBalance]

NoVirtualBalance ==
  [has |-> FALSE, initialQuoteBalance |-> 0, currentQuoteBalance |-> 0,
   currentBaseBalance |-> 0]

\* updateBot / createBot bind "x || null" for the three ledger columns, and
\* rowToBot yields virtualBalance only when virtual_balance_initial is truthy.
toRow(bot) ==
  [bot EXCEPT !.virtualBalance =
     IF bot.virtualBalance.has THEN bot.virtualBalance ELSE NoVirtualBalance]

rowToBot(row) ==
  [row EXCEPT !.virtualBalance =
     IF row.virtualBalance.initialQuoteBalance # 0
     THEN [row.virtualBalance EXCEPT !.has = TRUE]
     ELSE NoVirtualBalance]

NullDecision == [action |-> "null", reason |-> "null", qty |-> 0, at |-> 0]

NoOrder == [sent |-> FALSE, side |-> "none", qty |-> 0, reduceOnly |-> FALSE]

NoPosition == [positionAmt |-> 0, entryPrice |-> 0, markPrice |-> 0]

initBotRuntimeValue ==
  [lastOrderCandle |-> 0, candleCount |-> 0, dailyLoss |-> 0, totalLoss |-> 0,
   dailyResetTime |-> 0]

\* orders: the order requests the tick issues, in the order it awaits them
NoPending ==
  [decision |-> NullDecision, order |-> NoOrder, orders |-> <<>>,
   isClose |-> FALSE, pnlNeg |-> FALSE, lossUSDT |-> 0]

\* what the last BLOCKED tick of a loop saw
NoBlock ==
  [is |-> FALSE, wallet |-> 0, maxDaily |-> 0, maxTotal |-> 0, resetTime |-> 0]

NoLoop ==
  [pc |-> "none", botId |-> 0, botConfig |-> defaultBotConfig,
   keyEnv |-> "testnet", lastDecision |-> NullDecision, tickNo |-> 0,
   pend |-> NoPending, orphaned |-> FALSE]

EmptyLog ==
  [tickNo |-> 0, done |-> FALSE, refreshed |-> FALSE, config |-> defaultBotConfig,
   status |-> "none", reqs |-> {}, order |-> NoOrder, orders |-> <<>>,
   rt0 |-> initBotRuntimeValue, rt1 |-> initBotRuntimeValue,
   atCheck |-> initBotRuntimeValue,
   vb0 |-> NoVirtualBalance, vb1 |-> NoVirtualBalance, wallet |-> 0,
   pos |-> NoPosition, signal |-> "none", lastPrice |-> 0, qty |-> 0,
   slTp |-> NoSlTp, decision |-> NullDecision, prevDecision |-> NullDecision,
   snapDecision |-> NullDecision, orphanOrder |-> FALSE,
   failed |-> FALSE, blk |-> NoBlock]

Alive(l) == loop[l].pc \notin {"none", "crashed"}

\* ------------------------------------------------------------------- Store
getBotById(id) == id \in DOMAIN bots

upsertThrows(id) == fkEnforced /\ id \notin DOMAIN bots

upsertBotState(states, id, snap) ==
  [i \in DOMAIN states \cup {id} |-> IF i = id THEN snap ELSE states[i]]

\* ---------------------------------------------------------------- exchange
unRealizedProfit(p, mark) == p.positionAmt * (mark - p.entryPrice)

\* a market order filled at the mark price
FillOrder(p, order, mark) ==
  LET delta == IF order.side = "BUY" THEN order.qty ELSE -order.qty
      raw == p.positionAmt + delta
      amt == IF order.reduceOnly /\ raw * p.positionAmt < 0 THEN 0 ELSE raw
  IN  IF order.reduceOnly /\ p.positionAmt * delta >= 0 THEN p
      ELSE IF amt = 0 THEN [positionAmt |-> 0, entryPrice |-> 0]
      ELSE IF p.positionAmt = 0 \/ amt * p.positionAmt < 0
           THEN [positionAmt |-> amt, entryPrice |-> mark]
      ELSE IF Abs(amt) > Abs(p.positionAmt)
           THEN [positionAmt |-> amt,
                 entryPrice |-> (Abs(p.positionAmt) * p.entryPrice
                                 + order.qty * mark) \div Abs(amt)]
      ELSE [positionAmt |-> amt, entryPrice |-> p.entryPrice]

\* the exchange fills the order requests of a tick one after the other
RECURSIVE FillOrders(_, _, _)
FillOrders(p, orders, mark) ==
  IF orders = <<>> THEN p
  ELSE FillOrders(FillOrder(p, Head(orders), mark), Tail(orders), mark)

resolveBaseUrl(useTestnet) == IF useTestnet THEN "testnet" ELSE "mainnet"

\* -------------------------------------------------------- one tick of runBot
CloseAction(dryRun, reason) ==
  IF dryRun
  THEN (IF reason = "STOP_LOSS" THEN "DRY_CLOSE_STOP_LOSS" ELSE "DRY_CLOSE_TAKE_PROFIT")
  ELSE (IF reason = "STOP_LOSS" THEN "CLOSE_STOP_LOSS" ELSE "CLOSE_TAKE_PROFIT")

orderQty(config, lastPrice) ==
  LET quoteAmount == Max(0, config.orderQuoteAmount)
  IN  IF lastPrice > 0 THEN roundStep(quoteAmount, lastPrice, config.quantityStep)
      ELSE 0

\* the bookkeeping that follows an order (or a simulated order) in the
\* futures branch: runtime.lastOrderCandle and the loss accumulators
\* net accounting: a close with a gain is taken off the cumulative loss
afterOrderMutant(rt, pend) ==
  LET r1 == [rt EXCEPT !.lastOrderCandle = rt.candleCount]
  IN  IF pend.isClose /\ pend.pnlNeg
      THEN [r1 EXCEPT !.dailyLoss = @ + pend.lossUSDT,
                      !.totalLoss = @ + pend.lossUSDT]
      ELSE IF pend.isClose
      THEN [r1 EXCEPT !.totalLoss = @ - pend.lossUSDT]
      ELSE r1

afterOrder(rt, pend) ==
  LET r1 == [rt EXCEPT !.lastOrderCandle = rt.candleCount]
  IN  IF pend.isClose /\ pend.pnlNeg
      THEN [r1 EXCEPT !.dailyLoss = @ + pend.lossUSDT,
                      !.totalLoss = @ + pend.lossUSDT]
      ELSE r1

\* the forced close of lines 530-556: decision, order and loss of the close
closeOrderMutant(config, position, slTpCheck, at) ==
  [decision |-> [action |-> CloseAction(config.dryRun, slTpCheck.reason),
                 reason |-> slTpCheck.reason, qty |-> Abs(position.positionAmt),
                 at |-> at],
   order |-> [sent |-> ~config.dryRun,
              side |-> IF position.positionAmt > 0 THEN "BUY" ELSE "SELL",
              qty |-> Abs(position.positionAmt), reduceOnly |-> TRUE],
   orders |-> IF config.dryRun THEN <<>>
              ELSE <<[sent |-> TRUE,
                      side |-> IF position.positionAmt > 0 THEN "BUY" ELSE "SELL",
                      qty |-> Abs(position.positionAmt), reduceOnly |-> TRUE]>>,
   isClose |-> TRUE, pnlNeg |-> slTpCheck.pnlNeg,
   lossUSDT |-> Abs(unRealizedProfit(position, position.markPrice))]

closeOrder(config, position, slTpCheck, at) ==
  [decision |-> [action |-> CloseAction(config.dryRun, slTpCheck.reason),
                 reason |-> slTpCheck.reason, qty |-> Abs(position.positionAmt),
                 at |-> at],
   order |-> [sent |-> ~config.dryRun,
              side |-> IF position.positionAmt > 0 THEN "SELL" ELSE "BUY",
              qty |-> Abs(position.positionAmt), reduceOnly |-> TRUE],
   orders |-> IF config.dryRun THEN <<>>
              ELSE <<[sent |-> TRUE,
                      side |-> IF position.positionAmt > 0 THEN "SELL" ELSE "BUY",
                      qty |-> Abs(position.positionAmt), reduceOnly |-> TRUE]>>,
   isClose |-> TRUE, pnlNeg |-> slTpCheck.pnlNeg,
   lossUSDT |-> Abs(unRealizedProfit(position, position.markPrice))]

\* the loss-breaker branch of lines 518-527: nothing but the runtime as
\* checkMaxLoss left it
blockedRuntimeMutant(rt, pend) == afterOrder(rt, pend)

blockedRuntime(rt, pend) == rt

\* The futures branch from checkMaxLoss up to the first order await.
\* kind: "blocked" (loss breaker), "order" (a live order is awaited next),
\* "done" (no live order: the decision is final).
\* the entry branch is not the else of the close branch: a tick that closes
\* a position goes on to the entry decision
futuresDecideMutant(config, runtime, signal, lastPrice, walletBalance, position, clk, at) ==
  LET lossCheck == checkMaxLoss(runtime, config, walletBalance, clk)
      rt == lossCheck.rt
      positionAmt == position.positionAmt
      slTpCheck == checkStopLossTakeProfit(position, config)
      qty == orderQty(config, lastPrice)
      qtyValid == qty >= config.quantityStep /\ qty * lastPrice >= MinNotional
      hasPosition == Abs(positionAmt) > 0
      preventDuplicate == config.preventDuplicateOrders
      canOrder == ~hasPosition \/ ~preventDuplicate
      cooldownOk == checkCooldown(rt, config)
      base == [kind |-> "done", rt |-> rt, atCheck |-> rt, slTp |-> slTpCheck,
               qty |-> qty,
               decision |-> [action |-> "NONE", reason |-> "HOLD", qty |-> qty, at |-> at],
               pend |-> NoPending]
      act(pd) ==
        [base EXCEPT !.kind = IF config.dryRun THEN "done" ELSE "order",
                     !.rt = IF config.dryRun THEN afterOrder(rt, pd) ELSE rt,
                     !.decision = pd.decision, !.pend = pd]
      entry(side) ==
        [decision |-> [action |-> IF config.dryRun
                                  THEN (IF side = "BUY" THEN "DRY_BUY" ELSE "DRY_SELL")
                                  ELSE side,
                       reason |-> "MA_CROSS", qty |-> qty, at |-> at],
         order |-> [sent |-> ~config.dryRun, side |-> side, qty |-> qty,
                    reduceOnly |-> FALSE],
         orders |-> IF config.dryRun THEN <<>>
                    ELSE <<[sent |-> TRUE, side |-> side, qty |-> qty,
                            reduceOnly |-> FALSE]>>,
         isClose |-> FALSE, pnlNeg |-> FALSE, lossUSDT |-> 0]
  IN  IF ~lossCheck.allowed
      THEN [base EXCEPT !.kind = "blocked", !.decision = NullDecision,
              !.rt = blockedRuntime(rt, closeOrder(config, position, slTpCheck, at))]
      ELSE IF slTpCheck.fires /\ Abs(positionAmt) > 0
      THEN [act(closeOrder(config, position, slTpCheck, at)) EXCEPT !.pend.orders =
              @ \o (IF qtyValid /\ canOrder /\ cooldownOk
                    THEN (IF signal = "LONG" /\ positionAmt <= 0
                          THEN entry("BUY").orders
                          ELSE IF signal = "SHORT" /\ positionAmt >= 0
                          THEN entry("SELL").orders ELSE <<>>)
                    ELSE <<>>)]
      ELSE IF qtyValid /\ canOrder /\ cooldownOk
      THEN (IF signal = "LONG" /\ positionAmt <= 0 THEN act(entry("BUY"))
            ELSE IF signal = "SHORT" /\ positionAmt >= 0 THEN act(entry("SELL"))
            ELSE base)
      ELSE IF ~qtyValid THEN [base EXCEPT !.decision.reason = "QTY_INVALID"]
      ELSE IF ~cooldownOk THEN [base EXCEPT !.decision.reason = "COOLDOWN"]
      ELSE IF hasPosition /\ preventDuplicate
           THEN [base EXCEPT !.decision.reason = "POSITION_EXISTS"]
      ELSE base

futuresDecide(config, runtime, signal, lastPrice, walletBalance, position, clk, at) ==
  LET lossCheck == checkMaxLoss(runtime, config, walletBalance, clk)
      rt == lossCheck.rt
      positionAmt == position.positionAmt
      slTpCheck == checkStopLossTakeProfit(position, config)
      qty == orderQty(config, lastPrice)
      qtyValid == qty >= config.quantityStep /\ qty * lastPrice >= MinNotional
      hasPosition == Abs(positionAmt) > 0
      preventDuplicate == config.preventDuplicateOrders
      canOrder == ~hasPosition \/ ~preventDuplicate
      cooldownOk == checkCooldown(rt, config)
      base == [kind |-> "done", rt |-> rt, atCheck |-> rt, slTp |-> slTpCheck,
               qty |-> qty,
               decision |-> [action |-> "NONE", reason |-> "HOLD", qty |-> qty, at |-> at],
               pend |-> NoPending]
      act(pd) ==
        [base EXCEPT !.kind = IF config.dryRun THEN "done" ELSE "order",
                     !.rt = IF config.dryRun THEN afterOrder(rt, pd) ELSE rt,
                     !.decision = pd.decision, !.pend = pd]
      entry(side) ==
        [decision |-> [action |-> IF config.dryRun
                                  THEN (IF side = "BUY" THEN "DRY_BUY" ELSE "DRY_SELL")
                                  ELSE side,
                       reason |-> "MA_CROSS", qty |-> qty, at |-> at],
         order |-> [sent |-> ~config.dryRun, side |-> side, qty |-> qty,
                    reduceOnly |-> FALSE],
         orders |-> IF config.dryRun THEN <<>>
                    ELSE <<[sent |-> TRUE, side |-> side, qty |-> qty,
                            reduceOnly |-> FALSE]>>,
         isClose |-> FALSE, pnlNeg |-> FALSE, lossUSDT |-> 0]
  IN  IF ~lossCheck.allowed
      THEN [base EXCEPT !.kind = "blocked", !.decision = NullDecision,
              !.rt = blockedRuntime(rt, closeOrder(config, position, slTpCheck, at))]
      ELSE IF slTpCheck.fires /\ Abs(positionAmt) > 0
      THEN act(closeOrder(config, position, slTpCheck, at))
      ELSE IF qtyValid /\ canOrder /\ cooldownOk
      THEN (IF signal = "LONG" /\ positionAmt <= 0 THEN act(entry("BUY"))
            ELSE IF signal = "SHORT" /\ positionAmt >= 0 THEN act(entry("SELL"))
            ELSE base)
      ELSE IF ~qtyValid THEN [base EXCEPT !.decision.reason = "QTY_INVALID"]
      ELSE IF ~cooldownOk THEN [base EXCEPT !.decision.reason = "COOLDOWN"]
      ELSE IF hasPosition /\ preventDuplicate
           THEN [base EXCEPT !.decision.reason = "POSITION_EXISTS"]
      ELSE base

\* The spot branch up to the order await.  In dry-run the order is applied to
\* config.virtualBalance; field vb is the ledger after the branch.
spotDecide(config, signal, lastPrice, at) ==
  LET vb0 == IF config.dryRun /\ ~config.virtualBalance.has
             THEN DefaultVirtualBalance ELSE config.virtualBalance
      qty == orderQty(config, lastPrice)
      base == [kind |-> "done", vb |-> vb0, qty |-> qty,
               decision |-> [action |-> "NONE", reason |-> "HOLD", qty |-> qty, at |-> at],
               pend |-> NoPending]
      entry(side) ==
        LET d == [action |-> IF config.dryRun
                             THEN (IF side = "BUY" THEN "DRY_BUY" ELSE "DRY_SELL")
                             ELSE side,
                  reason |-> "MA_CROSS", qty |-> qty, at |-> at]
        IN  [base EXCEPT
               !.kind = IF config.dryRun THEN "done" ELSE "order",
               !.vb = IF config.dryRun
                      THEN updateVirtualBalance(vb0, side, qty, lastPrice) ELSE vb0,
               !.decision = d,
               !.pend = [decision |-> d,
                         order |-> [sent |-> ~config.dryRun, side |-> side,
                                    qty |-> qty, reduceOnly |-> FALSE],
                         orders |-> IF config.dryRun THEN <<>>
                                    ELSE <<[sent |-> TRUE, side |-> side,
                                            qty |-> qty, reduceOnly |-> FALSE]>>,
                         isClose |-> FALSE, pnlNeg |-> FALSE, lossUSDT |-> 0]]
  IN  IF qty > 0 /\ signal = "LONG" THEN entry("BUY")
      ELSE IF qty > 0 /\ signal = "SHORT" THEN entry("SELL")
      ELSE base

\* ------------------------------------------------------------ loop actions
\* runBot runs synchronously up to its first await, so a loop just started by
\* syncBots ("new") takes its first step before any other step of the worker
NoNewLoop == \A k \in Loops : loop[k].pc # "new"

\* upsertBotState(state) at the end of a tick, followed on the normal path by
\* updateBot(botConfig) and by the pacing sleep.  An upsert that throws is
\* caught by the loop's catch, whose own upsert throws again: runBot rejects
\* and the handler installed by syncBots deletes the id from runningBots.
\* runBot's rejection has no handler: the id stays in runningBots
PersistMutant(l, config, status, lastDec, writeBack, log) ==
  LET id == loop[l].botId
      snap == [ok |-> status # "ERROR", status |-> status,
               lastDecision |-> lastDec, by |-> l, tick |-> log.tickNo]
      rows == IF writeBack /\ id \in DOMAIN bots
              THEN [bots EXCEPT ![id] = toRow(config)] ELSE bots
  IN  IF upsertThrows(id)
      THEN /\ loop' = [loop EXCEPT ![l] = [@ EXCEPT !.pc = "crashed",
                         !.botConfig = config, !.tickNo = log.tickNo,
                         !.pend = NoPending]]
           /\ UNCHANGED runningBots
           /\ UNCHANGED <<botStates, bots>>
           /\ tickLog' = [tickLog EXCEPT ![l] =
                            [log EXCEPT !.status = "crash", !.done = TRUE]]
      ELSE /\ loop' = [loop EXCEPT ![l] = [@ EXCEPT !.pc = "sleep",
                         !.botConfig = config, !.lastDecision = lastDec,
                         !.tickNo = log.tickNo, !.pend = NoPending]]
           /\ botStates' = upsertBotState(botStates, id, snap)
           /\ bots' = rows
           /\ UNCHANGED runningBots
           /\ tickLog' = [tickLog EXCEPT ![l] =
                [log EXCEPT !.status = status, !.done = TRUE,
                            !.snapDecision = lastDec,
                            !.vb1 = IF id \in DOMAIN rows
                                    THEN rows[id].virtualBalance
                                    ELSE config.virtualBalance]]

Persist(l, config, status, lastDec, writeBack, log) ==
  LET id == loop[l].botId
      snap == [ok |-> status # "ERROR", status |-> status,
               lastDecision |-> lastDec, by |-> l, tick |-> log.tickNo]
      rows == IF writeBack /\ id \in DOMAIN bots
              THEN [bots EXCEPT ![id] = toRow(config)] ELSE bots
  IN  IF upsertThrows(id)
      THEN /\ loop' = [loop EXCEPT ![l] = [@ EXCEPT !.pc = "crashed",
                         !.botConfig = config, !.tickNo = log.tickNo,
                         !.pend = NoPending]]
           /\ runningBots' = runningBots \ {id}
           /\ UNCHANGED <<botStates, bots>>
           /\ tickLog' = [tickLog EXCEPT ![l] =
                            [log EXCEPT !.status = "crash", !.done = TRUE]]
      ELSE /\ loop' = [loop EXCEPT ![l] = [@ EXCEPT !.pc = "sleep",
                         !.botConfig = config, !.lastDecision = lastDec,
                         !.tickNo = log.tickNo, !.pend = NoPending]]
           /\ botStates' = upsertBotState(botStates, id, snap)
           /\ bots' = rows
           /\ UNCHANGED runningBots
           /\ tickLog' = [tickLog EXCEPT ![l] =
                [log EXCEPT !.status = status, !.done = TRUE,
                            !.snapDecision = lastDec,
                            !.vb1 = IF id \in DOMAIN rows
                                    THEN rows[id].virtualBalance
                                    ELSE config.virtualBalance]]

\* runtime.candleCount++ comes after the enabled check and its continue
countTickMutant(rt, enabled) == [rt EXCEPT !.candleCount = @ + 1]

countTick(rt, enabled) ==
  IF enabled THEN [rt EXCEPT !.candleCount = @ + 1] ELSE rt

\* top of the while loop: config refresh, the enabled check, candleCount++
TickStart(l) ==
  /\ proc = "running"
  /\ loop[l].pc \in {"new", "sleep"}
  /\ loop[l].pc = "sleep" => NoNewLoop
  /\ loop[l].tickNo < MaxTicks
  /\ LET id == loop[l].botId
         refreshed == getBotById(id)
         config == IF refreshed THEN rowToBot(bots[id]) ELSE loop[l].botConfig
         rtMap == IF id \in DOMAIN botRuntimeData THEN botRuntimeData
                  ELSE [i \in DOMAIN botRuntimeData \cup {id} |->
                          IF i = id
                          THEN [initBotRuntimeValue EXCEPT !.dailyResetTime = clock]
                          ELSE botRuntimeData[i]]
         rt == countTick(rtMap[id], config.enabled)
         log == [EmptyLog EXCEPT !.tickNo = loop[l].tickNo + 1,
                   !.refreshed = refreshed, !.config = config,
                   !.rt0 = rtMap[id], !.rt1 = rt,
                   !.vb0 = config.virtualBalance, !.vb1 = config.virtualBalance,
                   !.prevDecision = loop[l].lastDecision,
                   !.snapDecision = loop[l].lastDecision,
                   !.blk = tickLog[l].blk]
     IN  /\ botRuntimeData' = [rtMap EXCEPT ![id] = rt]
         /\ IF ~config.enabled
            THEN Persist(l, config, "DISABLED", loop[l].lastDecision, FALSE, log)
            ELSE /\ loop' = [loop EXCEPT ![l] = [@ EXCEPT !.pc = "fetch",
                               !.botConfig = config, !.tickNo = @ + 1]]
                 /\ tickLog' = [tickLog EXCEPT ![l] = [log EXCEPT !.reqs = {"klines"}]]
                 /\ UNCHANGED <<bots, botStates, runningBots>>
  /\ UNCHANGED <<proc, env, fkEnforced, clock, exch, ops, nextId, moves, fnIn, fnOut, ui>>

\* from the answer of getKlines to the first order await, or to the end of
\* the tick when no live order is sent
TickFetch(l) ==
  /\ loop[l].pc = "fetch"
  /\ NoNewLoop
  /\ \E netFail \in BOOLEAN :
       LET id == loop[l].botId
           config == loop[l].botConfig
           baseUrl == resolveBaseUrl(config.useTestnet)
           keysFit == loop[l].keyEnv = baseUrl
           closes == exch.closes
           fastPeriod == Max(1, config.fastPeriod)
           slowPeriod == Max(fastPeriod + 1, config.slowPeriod)
           sig == computeSignal(closes, fastPeriod, slowPeriod).signal
           lastPrice == closes[Len(closes)]
           rt == botRuntimeData[id]
           position == [positionAmt |-> exch.pos[baseUrl].positionAmt,
                        entryPrice |-> exch.pos[baseUrl].entryPrice,
                        markPrice |-> exch.mark]
           log == [tickLog[l] EXCEPT !.signal = sig, !.lastPrice = lastPrice]
           fut == futuresDecide(config, rt, sig, lastPrice, exch.wallet,
                                position, clock, loop[l].tickNo)
           spot == spotDecide(config, sig, lastPrice, loop[l].tickNo)
           spotConfig == [config EXCEPT !.virtualBalance = spot.vb]
       IN  IF netFail
           THEN /\ Persist(l, config, "ERROR", loop[l].lastDecision, FALSE,
                           [tickLog[l] EXCEPT !.rt1 = rt, !.failed = TRUE])
                /\ UNCHANGED botRuntimeData
           ELSE IF config.market = "futures" /\ ~keysFit
           THEN /\ Persist(l, config, "ERROR", loop[l].lastDecision, FALSE,
                           [log EXCEPT !.reqs = @ \cup {"leverage"}, !.rt1 = rt,
                                       !.failed = TRUE])
                /\ UNCHANGED botRuntimeData
           ELSE IF config.market = "futures"
           THEN LET flog == [log EXCEPT
                               !.reqs = @ \cup {"leverage", "futuresAccount", "positionRisk"}
                                          \cup (IF fut.pend.order.sent THEN {"order"} ELSE {}),
                               !.wallet = exch.wallet, !.pos = position,
                               !.slTp = fut.slTp, !.qty = fut.qty,
                               !.atCheck = fut.atCheck,
                               !.decision = fut.decision, !.order = fut.pend.order,
                               !.orders = fut.pend.orders,
                               !.orphanOrder = fut.pend.order.sent /\ loop[l].orphaned,
                               !.rt1 = fut.rt]
                IN  /\ botRuntimeData' = [botRuntimeData EXCEPT ![id] = fut.rt]
                    /\ IF fut.kind = "blocked"
                       THEN Persist(l, config, "BLOCKED", loop[l].lastDecision, FALSE,
                                    [flog EXCEPT !.blk =
                                       [is |-> TRUE, wallet |-> exch.wallet,
                                        maxDaily |-> config.maxDailyLossPercent,
                                        maxTotal |-> config.maxTotalLossPercent,
                                        resetTime |-> fut.rt.dailyResetTime]])
                       ELSE IF fut.kind = "order"
                       THEN /\ loop' = [loop EXCEPT ![l] = [@ EXCEPT !.pc = "order",
                                                              !.pend = fut.pend]]
                            /\ tickLog' = [tickLog EXCEPT ![l] = flog]
                            /\ UNCHANGED <<bots, botStates, runningBots>>
                       ELSE Persist(l, config, "RUNNING", fut.decision,
                                    config.dryRun /\ config.virtualBalance.has, flog)
           ELSE IF ~config.dryRun /\ ~keysFit
           THEN /\ Persist(l, config, "ERROR", loop[l].lastDecision, FALSE,
                           [log EXCEPT !.reqs = @ \cup {"spotAccount"}, !.rt1 = rt,
                                       !.failed = TRUE])
                /\ UNCHANGED botRuntimeData
           ELSE LET slog == [log EXCEPT
                               !.reqs = @ \cup (IF config.dryRun THEN {} ELSE {"spotAccount"})
                                          \cup (IF spot.pend.order.sent THEN {"order"} ELSE {}),
                               !.qty = spot.qty, !.decision = spot.decision,
                               !.order = spot.pend.order,
                               !.orders = spot.pend.orders,
                               !.orphanOrder = spot.pend.order.sent /\ loop[l].orphaned,
                               !.rt1 = rt]
                IN  /\ UNCHANGED botRuntimeData
                    /\ IF spot.kind = "order"
                       THEN /\ loop' = [loop EXCEPT ![l] = [@ EXCEPT !.pc = "order",
                                          !.botConfig = spotConfig, !.pend = spot.pend]]
                            /\ tickLog' = [tickLog EXCEPT ![l] = slog]
                            /\ UNCHANGED <<bots, botStates, runningBots>>
                       ELSE Persist(l, spotConfig, "RUNNING", spot.decision,
                                    spotConfig.dryRun /\ spotConfig.virtualBalance.has, slog)
  /\ UNCHANGED <<proc, env, fkEnforced, clock, exch, ops, nextId, moves, fnIn, fnOut, ui>>

\* the answer of futuresOrder / spotOrder and the rest of the tick
TickOrder(l) ==
  /\ loop[l].pc = "order"
  /\ NoNewLoop
  /\ \E ok \in BOOLEAN :
       LET id == loop[l].botId
           config == loop[l].botConfig
           baseUrl == resolveBaseUrl(config.useTestnet)
           pend == loop[l].pend
           rt == botRuntimeData[id]
           rt1 == IF config.market = "futures" THEN afterOrder(rt, pend) ELSE rt
       IN  IF ok
           THEN /\ exch' = IF config.market = "futures"
                           THEN [exch EXCEPT !.pos[baseUrl] =
                                   FillOrders(@, pend.orders, exch.mark)]
                           ELSE exch
                /\ botRuntimeData' = [botRuntimeData EXCEPT ![id] = rt1]
                /\ Persist(l, config, "RUNNING", pend.decision,
                           config.dryRun /\ config.virtualBalance.has,
                           [tickLog[l] EXCEPT !.rt1 = rt1])
           ELSE /\ Persist(l, config, "ERROR", loop[l].lastDecision, FALSE,
                           [tickLog[l] EXCEPT !.rt1 = rt, !.failed = TRUE])
                /\ UNCHANGED <<exch, botRuntimeData>>
  /\ UNCHANGED <<proc, env, fkEnforced, clock, ops, nextId, moves, fnIn, fnOut, ui>>

\* ---------------------------------------------------------------- scheduler
\* the credential check of syncBots: apiKey and apiSecret of the bot's
\* environment
hasKeysMutant(useTestnet) ==
  IF useTestnet THEN env.testnetKey ELSE env.mainnetKey

hasKeys(useTestnet) ==
  IF useTestnet THEN env.testnetKey /\ env.testnetSecret
  ELSE env.mainnetKey /\ env.mainnetSecret

FreeSlots == {k \in Loops : loop[k].pc = "none"}

\* the n-th smallest element of a set of numbers (n = 1 is the minimum)
RECURSIVE NthSmallest(_, _)
NthSmallest(S, n) ==
  LET m == CHOOSE x \in S : \A y \in S : x <= y
  IN  IF n = 1 THEN m ELSE NthSmallest(S \ {m}, n - 1)

\* one call of syncBots: the primed Store-independent worker state
syncBots ==
  LET ids == DOMAIN bots
      toStart == {id \in ids : id \notin runningBots /\ hasKeys(bots[id].useTestnet)}
      rank(id) == Cardinality({j \in toStart : j <= id})
      slotOf(id) == NthSmallest(FreeSlots, rank(id))
      started == {slotOf(id) : id \in toStart}
      botOf(k) == CHOOSE id \in toStart : slotOf(id) = k
      removed == runningBots \ ids
  IN  /\ Cardinality(toStart) <= Cardinality(FreeSlots)
      /\ runningBots' = (runningBots \cup toStart) \cap ids
      /\ loop' = [k \in Loops |->
           IF k \in started
           THEN [NoLoop EXCEPT !.pc = "new", !.botId = botOf(k),
                   !.botConfig = rowToBot(bots[botOf(k)]),
                   !.keyEnv = resolveBaseUrl(bots[botOf(k)].useTestnet)]
           ELSE IF Alive(k) /\ loop[k].botId \in removed
           THEN [loop[k] EXCEPT !.orphaned = TRUE]
           ELSE loop[k]]
      /\ tickLog' = [k \in Loops |-> IF k \in started THEN EmptyLog ELSE tickLog[k]]

SyncBots ==
  /\ proc = "running"
  /\ NoNewLoop
  /\ syncBots
  /\ loop' # loop
  /\ UNCHANGED <<proc, env, fkEnforced, bots, botStates, botRuntimeData, clock,
                 exch, ops, nextId, moves, fnIn, fnOut, ui>>

FatalSnapshot ==
  [ok |-> FALSE, status |-> "FATAL", lastDecision |-> NullDecision, by |-> 0,
   tick |-> 0]

\* main(): the key check, then the first syncBots; main().catch on a throw
Main ==
  /\ proc = "init"
  /\ IF ~env.mainnetKey /\ ~env.testnetKey
     THEN /\ proc' = "fatal"
          /\ botStates' = IF upsertThrows(0) THEN botStates
                          ELSE upsertBotState(botStates, 0, FatalSnapshot)
          /\ UNCHANGED <<runningBots, loop, tickLog>>
     ELSE /\ proc' = "running"
          /\ syncBots
          /\ UNCHANGED botStates
  /\ UNCHANGED <<env, fkEnforced, bots, botRuntimeData, clock, exch, ops, nextId, moves,
                 fnIn, fnOut, ui>>

\* --------------------------------------------------------------- config API
\* the configs an operator may submit in place of config c: one of the mode
\* fields edited
Edits(c) ==
  {[c EXCEPT !.enabled = ~c.enabled], [c EXCEPT !.dryRun = ~c.dryRun],
   [c EXCEPT !.useTestnet = ~c.useTestnet]}

\* a trading configuration: enabled, windows 1 / 2, 200.0 quote per order
TradingConfig(market, dryRun) ==
  [defaultBotConfig EXCEPT !.enabled = TRUE, !.market = market, !.dryRun = dryRun,
     !.fastPeriod = 1, !.slowPeriod = 2, !.orderQuoteAmount = 2000,
     !.cooldownCandles = 2]

Presets == {TradingConfig("spot", TRUE), TradingConfig("futures", FALSE)}

\* POST {action: 'create'}: a default bot under a fresh id
CreateBot ==
  /\ ops < MaxOps
  /\ nextId \in BotIds
  /\ bots' = [i \in DOMAIN bots \cup {nextId} |->
                IF i = nextId THEN toRow(defaultBotConfig) ELSE bots[i]]
  /\ ops' = ops + 1
  /\ nextId' = nextId + 1
  /\ UNCHANGED <<proc, env, fkEnforced, botStates, runningBots, botRuntimeData,
                 loop, clock, exch, tickLog, moves, fnIn, fnOut, ui>>

\* PUT with one bot in the body: updateBot when the id exists, else createBot
PutBot(id) ==
  /\ ops < MaxOps
  /\ \E c \in (IF id \in DOMAIN bots THEN Edits(rowToBot(bots[id])) ELSE Presets) :
       bots' = [i \in DOMAIN bots \cup {id} |->
                  IF i = id THEN toRow(c) ELSE bots[i]]
  /\ ops' = ops + 1
  /\ UNCHANGED <<proc, env, fkEnforced, botStates, runningBots, botRuntimeData,
                 loop, clock, exch, tickLog, nextId, moves, fnIn, fnOut, ui>>

\* the bots a PUT body may carry: any values in the validated fields (order
\* amounts 5.0 and 20.0, windows 9/21 and 21/21, percentages 0 and default,
\* cooldown -1 and 3)
ApiConfigs ==
  {[defaultBotConfig EXCEPT !.orderQuoteAmount = oq, !.fastPeriod = f,
      !.stopLossPercent = sl, !.takeProfitPercent = tp, !.cooldownCandles = cd] :
     oq \in {50, 200}, f \in {9, 21}, sl \in {0, 10}, tp \in {0, 15},
     cd \in {-1, 3}}

\* PUT with one bot of ApiConfigs in the body: the handler stores it as it
\* is (updateBot when the id exists, else createBot)
PutConfig(id) ==
  /\ ops < MaxOps
  /\ \E c \in ApiConfigs :
       bots' = [i \in DOMAIN bots \cup {id} |->
                  IF i = id THEN toRow(c) ELSE bots[i]]
  /\ ops' = ops + 1
  /\ UNCHANGED <<proc, env, fkEnforced, botStates, runningBots, botRuntimeData,
                 loop, clock, exch, tickLog, nextId, moves, fnIn, fnOut, ui>>

\* DELETE ?id= (and POST {action: 'delete'}); bot_states rows go with the
\* bot only where ON DELETE CASCADE is enforced
DeleteBot(id) ==
  /\ ops < MaxOps
  /\ id \in DOMAIN bots
  /\ bots' = [i \in DOMAIN bots \ {id} |-> bots[i]]
  /\ botStates' = IF fkEnforced
                  THEN [i \in DOMAIN botStates \ {id} |-> botStates[i]]
                  ELSE botStates
  /\ ops' = ops + 1
  /\ UNCHANGED <<proc, env, fkEnforced, runningBots, botRuntimeData, loop, clock,
                 exch, tickLog, nextId, moves, fnIn, fnOut, ui>>

\* ---------------------------------------------------------------- dashboard
\* the config event of the SSE stream: the page replaces its copy of the bots
UiStream ==
  /\ LET fresh == [i \in DOMAIN bots |-> rowToBot(bots[i])]
     IN /\ ~ui.loaded \/ ui.cache # fresh
        /\ ui' = [ui EXCEPT !.loaded = TRUE, !.cache = fresh]
  /\ UNCHANGED <<proc, env, fkEnforced, bots, botStates, runningBots,
                 botRuntimeData, loop, clock, exch, tickLog, ops, nextId, moves,
                 fnIn, fnOut>>

\* the PUT handler applied to the page's copy of the bots with one of them
\* replaced: every bot of the body is updated, or created when its id is gone
putCached(id, bot) ==
  bots' = [i \in DOMAIN bots \cup DOMAIN ui.cache |->
             IF i \in DOMAIN ui.cache
             THEN toRow(IF i = id THEN bot ELSE ui.cache[i])
             ELSE bots[i]]

\* performSave: PUT the copy with the saved bot in place, close the dialog
performSave(id, bot, byConfirm) ==
  /\ ui.loaded
  /\ ops < MaxOps
  /\ putCached(id, bot)
  /\ ops' = ops + 1
  /\ ui' = [ui EXCEPT !.editingId = 0, !.editingBot = defaultBotConfig,
                      !.show = FALSE, !.ack = FALSE, !.pendingId = 0,
                      !.pendingBot = defaultBotConfig,
                      !.confirmed = IF byConfirm /\ id \in DOMAIN ui.cache
                                    THEN @ \cup {id} ELSE @]
  /\ UNCHANGED <<proc, env, fkEnforced, botStates, runningBots, botRuntimeData,
                 loop, clock, exch, tickLog, nextId, moves, fnIn, fnOut>>

\* startEdit on a listed bot, one field changed in the form, then saveBot
\* (or saveBot again on the form left open by a cancelled dialog): a
\* mainnet, non-simulated configuration opens the confirmation dialog and
\* leaves the form open, any other is saved
saveBot(id) ==
  /\ ui.loaded
  /\ ~ui.show
  /\ IF ui.editingId # 0 THEN id = ui.editingId ELSE id \in DOMAIN ui.cache
  /\ \E editingBot \in (IF ui.editingId # 0 THEN {ui.editingBot}
                         ELSE Edits(ui.cache[id])) :
       IF ~editingBot.useTestnet /\ ~editingBot.dryRun
       THEN /\ ui' = [ui EXCEPT !.editingId = id, !.editingBot = editingBot,
                                !.show = TRUE, !.pendingId = id,
                                !.pendingBot = editingBot]
            /\ UNCHANGED <<proc, env, fkEnforced, bots, botStates, runningBots,
                           botRuntimeData, loop, clock, exch, tickLog, ops,
                           nextId, moves, fnIn, fnOut>>
       ELSE performSave(id, editingBot, FALSE)

\* the acknowledgement checkbox of the dialog
UiAcknowledge ==
  /\ ui.show
  /\ ui' = [ui EXCEPT !.ack = ~ui.ack]
  /\ UNCHANGED <<proc, env, fkEnforced, bots, botStates, runningBots,
                 botRuntimeData, loop, clock, exch, tickLog, ops, nextId, moves,
                 fnIn, fnOut>>

\* the cancel button of the dialog
UiCancel ==
  /\ ui.show
  /\ ui' = [ui EXCEPT !.show = FALSE, !.ack = FALSE, !.pendingId = 0,
                      !.pendingBot = defaultBotConfig]
  /\ UNCHANGED <<proc, env, fkEnforced, bots, botStates, runningBots,
                 botRuntimeData, loop, clock, exch, tickLog, ops, nextId, moves,
                 fnIn, fnOut>>

\* confirmRealTrade: nothing without the acknowledgement and a pending bot
confirmRealTrade ==
  /\ ui.show
  /\ ui.ack /\ ui.pendingId # 0
  /\ performSave(ui.pendingId, ui.pendingBot, TRUE)

\* toggleBotEnabled: PUT the copy with the bot's enabled flag flipped; a
\* simulated bot that is switched on gets its virtual balance reset
toggleBotEnabled(id) ==
  /\ ui.loaded
  /\ id \in DOMAIN ui.cache
  /\ ~ui.show
  /\ ops < MaxOps
  /\ LET b == ui.cache[id]
         newEnabled == ~b.enabled
         updatedBot == [b EXCEPT !.enabled = newEnabled,
                          !.virtualBalance = IF b.dryRun /\ newEnabled
                                             THEN DefaultVirtualBalance ELSE @]
     IN putCached(id, updatedBot)
  /\ ops' = ops + 1
  /\ UNCHANGED <<proc, env, fkEnforced, botStates, runningBots, botRuntimeData,
                 loop, clock, exch, tickLog, nextId, moves, fnIn, fnOut, ui>>

\* -------------------------------------------------------------- environment
AdvanceClock ==
  /\ clock < MaxNow
  /\ clock' = clock + 1
  /\ UNCHANGED <<proc, env, fkEnforced, bots, botStates, runningBots,
                 botRuntimeData, loop, exch, tickLog, ops, nextId, moves, fnIn, fnOut, ui>>

\* market situations: candle closes, mark price, wallet balance
Markets ==
  {[closes |-> <<991, 1000>>, mark |-> 1000, wallet |-> 400],
   [closes |-> <<991, 1000>>, mark |-> 989, wallet |-> 400],
   [closes |-> <<1000, 991>>, mark |-> 991, wallet |-> 400],
   [closes |-> <<1000, 1000>>, mark |-> 1015, wallet |-> 10000],
   [closes |-> <<1000>>, mark |-> 1011, wallet |-> 10000]}

MarketMove ==
  /\ moves < MaxMoves
  /\ \E m \in Markets :
       /\ exch' = [exch EXCEPT !.closes = m.closes, !.mark = m.mark,
                               !.wallet = m.wallet]
       /\ exch' # exch
  /\ moves' = moves + 1
  /\ UNCHANGED <<proc, env, fkEnforced, bots, botStates, runningBots,
                 botRuntimeData, loop, clock, tickLog, ops, nextId, fnIn, fnOut, ui>>

\* ------------------------------------------------------------ specifications
AllKeys == [testnetKey |-> TRUE, testnetSecret |-> TRUE,
            mainnetKey |-> TRUE, mainnetSecret |-> TRUE]

InitExch ==
  [closes |-> <<991, 1000>>, mark |-> 1000, wallet |-> 400,
   pos |-> [e \in Envs |-> [positionAmt |-> 0, entryPrice |-> 0]]]

NoFn == [f |-> "none"]

\* the dashboard before its first config event: botsConfig null, no dialog
NoUi ==
  [loaded |-> FALSE, cache |-> <<>>, editingId |-> 0,
   editingBot |-> defaultBotConfig, show |-> FALSE, ack |-> FALSE,
   pendingId |-> 0, pendingBot |-> defaultBotConfig, confirmed |-> {}]

InitWorker ==
  /\ proc = "init"
  /\ botStates = <<>>
  /\ runningBots = {}
  /\ botRuntimeData = <<>>
  /\ loop = [k \in Loops |-> NoLoop]
  /\ clock = 0
  /\ tickLog = [k \in Loops |-> EmptyLog]
  /\ ops = 0
  /\ nextId = 2
  /\ moves = 0
  /\ ui = NoUi

InitCommon ==
  /\ InitWorker
  /\ fnIn = NoFn
  /\ fnOut = NoFn

\* the worker with its scheduler, the config API and a quiet market
Init ==
  /\ InitCommon
  /\ env = AllKeys
  /\ fkEnforced \in BOOLEAN
  /\ \E c \in Presets : bots = [i \in {1} |-> toRow(c)]
  /\ exch = InitExch

Next ==
  \/ Main
  \/ SyncBots
  \/ CreateBot
  \/ \E id \in BotIds : PutBot(id)
  \/ \E id \in BotIds : DeleteBot(id)
  \/ \E l \in Loops : TickStart(l)
  \/ \E l \in Loops : TickFetch(l)
  \/ \E l \in Loops : TickOrder(l)

Spec == Init /\ [][Next]_vars

\* one futures bot under a moving market and a running clock; the account
\* may hold a position opened before the worker started
OpenPositions ==
  {[positionAmt |-> 0, entryPrice |-> 0], [positionAmt |-> 4, entryPrice |-> 1000],
   [positionAmt |-> -4, entryPrice |-> 1000]}

InitTick ==
  /\ InitCommon
  /\ env = AllKeys
  /\ fkEnforced = TRUE
  /\ \E d, pd \in BOOLEAN, cd \in {0, 2} :
       bots = [i \in {1} |->
                 toRow([TradingConfig("futures", d) EXCEPT
                          !.preventDuplicateOrders = pd, !.cooldownCandles = cd])]
  /\ \E p \in OpenPositions :
       exch = [InitExch EXCEPT !.pos = [e \in Envs |-> p]]

NextTick ==
  \/ Main
  \/ \E l \in Loops : TickStart(l)
  \/ \E l \in Loops : TickFetch(l)
  \/ \E l \in Loops : TickOrder(l)
  \/ AdvanceClock
  \/ MarketMove

SpecTick == InitTick /\ [][NextTick]_vars

\* the worker started under partial credentials: a live futures bot on
\* testnet and a simulated spot bot on mainnet, edited through the config API
KeyEnvs ==
  {[testnetKey |-> FALSE, testnetSecret |-> FALSE,
    mainnetKey |-> FALSE, mainnetSecret |-> FALSE],
   [testnetKey |-> FALSE, testnetSecret |-> FALSE,
    mainnetKey |-> TRUE, mainnetSecret |-> FALSE],
   [testnetKey |-> TRUE, testnetSecret |-> TRUE,
    mainnetKey |-> TRUE, mainnetSecret |-> FALSE],
   [testnetKey |-> TRUE, testnetSecret |-> FALSE,
    mainnetKey |-> TRUE, mainnetSecret |-> TRUE],
   [testnetKey |-> FALSE, testnetSecret |-> FALSE,
    mainnetKey |-> TRUE, mainnetSecret |-> TRUE]}

InitKeys ==
  /\ InitCommon
  /\ env \in KeyEnvs
  /\ fkEnforced = TRUE
  /\ bots = [i \in {1, 2} |->
               IF i = 1 THEN toRow(TradingConfig("futures", FALSE))
               ELSE toRow([TradingConfig("spot", TRUE) EXCEPT !.useTestnet = FALSE])]
  /\ exch = InitExch

NextKeys ==
  \/ Main
  \/ SyncBots
  \/ \E id \in BotIds : PutBot(id)
  \/ \E l \in Loops : TickStart(l)
  \/ \E l \in Loops : TickFetch(l)
  \/ \E l \in Loops : TickOrder(l)

SpecKeys == InitKeys /\ [][NextKeys]_vars

\* a futures bot whose earlier ticks closed positions at a loss: the loop is
\* asleep between two ticks and the accumulators hold the realized loss
RealizedLosses == {30, 44}

LossRuntime(loss) ==
  [lastOrderCandle |-> 1, candleCount |-> 1, dailyLoss |-> loss,
   totalLoss |-> loss, dailyResetTime |-> 0]

InitLoss ==
  /\ proc = "running"
  /\ env = AllKeys
  /\ fkEnforced = TRUE
  /\ runningBots = {1}
  /\ clock = 0
  /\ tickLog = [k \in Loops |-> EmptyLog]
  /\ ops = 0
  /\ nextId = 2
  /\ moves = 0
  /\ fnIn = NoFn
  /\ fnOut = NoFn
  /\ ui = NoUi
  /\ \E d \in BOOLEAN, loss \in RealizedLosses, p \in OpenPositions :
       LET config == TradingConfig("futures", d)
           last == [action |-> CloseAction(d, "STOP_LOSS"), reason |-> "STOP_LOSS",
                    qty |-> 4, at |-> 0]
       IN  /\ bots = [i \in {1} |-> toRow(config)]
           /\ botRuntimeData = [i \in {1} |-> LossRuntime(loss)]
           /\ loop = [k \in Loops |->
                        IF k = 1
                        THEN [NoLoop EXCEPT !.pc = "sleep", !.botId = 1,
                                !.botConfig = rowToBot(toRow(config)),
                                !.keyEnv = resolveBaseUrl(config.useTestnet),
                                !.lastDecision = last]
                        ELSE NoLoop]
           /\ botStates = [i \in {1} |->
                             [ok |-> TRUE, status |-> "RUNNING", lastDecision |-> last,
                              by |-> 1, tick |-> 0]]
           /\ exch = [InitExch EXCEPT !.pos = [e \in Envs |-> p]]

NextLoss ==
  \/ \E l \in Loops : TickStart(l)
  \/ \E l \in Loops : TickFetch(l)
  \/ \E l \in Loops : TickOrder(l)
  \/ AdvanceClock
  \/ MarketMove

SpecLoss == InitLoss /\ [][NextLoss]_vars

\* one bot of either market kind at the entry / exit decision: order
\* amounts of 200.0 and 20.0 quote units, duplicate prevention on or off,
\* cooldown of 0 or 2 ticks; the spot bot is simulated
EntryConfigs ==
  {[TradingConfig(m, d) EXCEPT !.preventDuplicateOrders = pd,
      !.cooldownCandles = cd, !.orderQuoteAmount = oq] :
     m \in {"spot", "futures"}, d \in BOOLEAN, pd \in BOOLEAN, cd \in {0, 2},
     oq \in {200, 2000}}

InitEntry ==
  /\ InitCommon
  /\ env = AllKeys
  /\ fkEnforced = TRUE
  /\ \E c \in EntryConfigs :
       /\ c.market = "spot" => c.dryRun
       /\ bots = [i \in {1} |-> toRow(c)]
  /\ \E p \in OpenPositions :
       exch = [InitExch EXCEPT !.pos = [e \in Envs |-> p]]

NextEntry ==
  \/ Main
  \/ \E l \in Loops : TickStart(l)
  \/ \E l \in Loops : TickFetch(l)
  \/ \E l \in Loops : TickOrder(l)
  \/ MarketMove

SpecEntry == InitEntry /\ [][NextEntry]_vars

\* the config API alone: create, update and delete requests on the Store
InitApi ==
  /\ InitCommon
  /\ env = AllKeys
  /\ fkEnforced = TRUE
  /\ bots = [i \in {1} |-> toRow(defaultBotConfig)]
  /\ exch = InitExch

NextApi ==
  \/ CreateBot
  \/ \E id \in BotIds : PutConfig(id)
  \/ \E id \in BotIds : DeleteBot(id)

SpecApi == InitApi /\ [][NextApi]_vars

\* the dashboard and the config API over one stored bot, a simulated spot
\* bot that has bought 2.0 base for 200.0 quote and is switched off
InitUi ==
  /\ InitCommon
  /\ env = AllKeys
  /\ fkEnforced = TRUE
  /\ bots = [i \in {1} |-> toRow([defaultBotConfig EXCEPT
                !.virtualBalance.currentQuoteBalance = 8000,
                !.virtualBalance.currentBaseBalance = 20000])]
  /\ exch = InitExch

NextUi ==
  \/ UiStream
  \/ \E id \in BotIds : saveBot(id)
  \/ UiAcknowledge
  \/ UiCancel
  \/ confirmRealTrade
  \/ \E id \in BotIds : toggleBotEnabled(id)
  \/ CreateBot
  \/ \E id \in BotIds : PutBot(id)
  \/ \E id \in BotIds : DeleteBot(id)

SpecUi == InitUi /\ [][NextUi]_vars

\* the stop-loss / take-profit check applied to one open position
SlTpInputs ==
  [f : {"checkStopLossTakeProfit"},
   position : [positionAmt : {-3, 3}, entryPrice : {1000, 2000},
               markPrice : {980, 985, 989, 990, 991, 995, 1000, 1010, 1015,
                            1016, 1020, 2000, 2030}],
   stopLossPercent : {0, 10, 20},
   takeProfitPercent : {0, 15}]

SlTpConfig(in) ==
  [defaultBotConfig EXCEPT !.stopLossPercent = in.stopLossPercent,
                           !.takeProfitPercent = in.takeProfitPercent]

InitSlTp ==
  /\ InitWorker
  /\ env = AllKeys
  /\ fkEnforced = TRUE
  /\ bots = <<>>
  /\ exch = InitExch
  /\ fnIn \in SlTpInputs
  /\ fnOut = NoFn

ApplySlTp ==
  /\ fnIn.f = "checkStopLossTakeProfit"
  /\ fnOut = NoFn
  /\ fnOut' = [f |-> fnIn.f,
               r |-> checkStopLossTakeProfit(fnIn.position, SlTpConfig(fnIn))]
  /\ UNCHANGED <<proc, env, fkEnforced, bots, botStates, runningBots,
                 botRuntimeData, loop, clock, exch, tickLog, ops, nextId, moves, fnIn, ui>>

NextSlTp == ApplySlTp

SpecSlTp == InitSlTp /\ [][NextSlTp]_vars

\* one futures bot on an account whose wallet is empty or holds 40.0
Wallets == {0, 400}

InitWallet ==
  /\ InitCommon
  /\ env = AllKeys
  /\ fkEnforced = TRUE
  /\ \E d, pd \in BOOLEAN :
       bots = [i \in {1} |->
                 toRow([TradingConfig("futures", d) EXCEPT
                          !.preventDuplicateOrders = pd, !.cooldownCandles = 0])]
  /\ \E w \in Wallets, p \in OpenPositions :
       exch = [InitExch EXCEPT !.wallet = w, !.pos = [e \in Envs |-> p]]

NextWallet ==
  \/ Main
  \/ \E l \in Loops : TickStart(l)
  \/ \E l \in Loops : TickFetch(l)
  \/ \E l \in Loops : TickOrder(l)
  \/ AdvanceClock
  \/ MarketMove

SpecWallet == InitWallet /\ [][NextWallet]_vars

\* one bot of either market kind, live or simulated, without cooldown or
\* duplicate guard, on a market where the stop-loss of an open long position
\* and a SHORT signal can coincide
OrderConfigs ==
  {[TradingConfig(m, d) EXCEPT !.preventDuplicateOrders = FALSE,
      !.cooldownCandles = 0] : m \in {"spot", "futures"}, d \in BOOLEAN}

OrderMarkets ==
  {[closes |-> <<991, 1000>>, mark |-> 1000],
   [closes |-> <<1000, 991>>, mark |-> 989]}

InitOrder ==
  /\ InitCommon
  /\ env = AllKeys
  /\ fkEnforced = TRUE
  /\ \E c \in OrderConfigs : bots = [i \in {1} |-> toRow(c)]
  /\ \E p \in OpenPositions, k \in OrderMarkets :
       exch = [InitExch EXCEPT !.pos = [e \in Envs |-> p],
                               !.closes = k.closes, !.mark = k.mark]

NextOrder ==
  \/ Main
  \/ \E l \in Loops : TickStart(l)
  \/ \E l \in Loops : TickFetch(l)
  \/ \E l \in Loops : TickOrder(l)
  \/ MarketMove

SpecOrder == InitOrder /\ [][NextOrder]_vars

\* computeSignal applied to one close series under the periods runBot can
\* pass (fastPeriod >= 1, slowPeriod >= fastPeriod + 1)
SignalPrices == {1, 2, 3, 100}

RECURSIVE Series(_)
Series(n) ==
  IF n = 0 THEN {<<>>}
  ELSE Series(n - 1) \cup
       {Append(q, x) : q \in {r \in Series(n - 1) : Len(r) = n - 1},
                       x \in SignalPrices}

SignalInputs ==
  {[f |-> "computeSignal", closes |-> c, fastPeriod |-> fp, slowPeriod |-> sp] :
     c \in Series(MaxSeries), fp \in 1..(MaxPeriod - 1), sp \in 2..MaxPeriod}

InitSignal ==
  /\ InitWorker
  /\ env = AllKeys
  /\ fkEnforced = TRUE
  /\ bots = <<>>
  /\ exch = InitExch
  /\ fnIn \in {in \in SignalInputs : in.slowPeriod >= in.fastPeriod + 1}
  /\ fnOut = NoFn

ApplySignal ==
  /\ fnIn.f = "computeSignal"
  /\ fnOut = NoFn
  /\ fnOut' = [f |-> fnIn.f,
               r |-> computeSignal(fnIn.closes, fnIn.fastPeriod, fnIn.slowPeriod)]
  /\ UNCHANGED <<proc, env, fkEnforced, bots, botStates, runningBots,
                 botRuntimeData, loop, clock, exch, tickLog, ops, nextId, moves,
                 fnIn, ui>>

NextSignal == ApplySignal

SpecSignal == InitSignal /\ [][NextSignal]_vars

\* ------------------------------------------------------- exchange requests
\* JavaScript values of request parameters and their String(v) conversion
JsStr(x) == [t |-> "string", s |-> x, n |-> 0, b |-> FALSE]
JsNum(x) == [t |-> "number", s |-> "", n |-> x, b |-> FALSE]
JsBool(x) == [t |-> "boolean", s |-> "", n |-> 0, b |-> x]
JsUndefined == [t |-> "undefined", s |-> "", n |-> 0, b |-> FALSE]

String(v) ==
  CASE v.t = "string" -> v.s
    [] v.t = "number" -> ToString(v.n)
    [] v.t = "boolean" -> (IF v.b THEN "true" ELSE "false")
    [] OTHER -> "undefined"

\* URLSearchParams: a list of [k, v] pairs of strings in insertion order
qsHas(qs, k) == \E i \in 1..Len(qs) : qs[i].k = k

qsSet(qs, k, v) ==
  IF qsHas(qs, k)
  THEN [i \in 1..Len(qs) |-> IF qs[i].k = k THEN [k |-> k, v |-> v] ELSE qs[i]]
  ELSE Append(qs, [k |-> k, v |-> v])

RECURSIVE qsToString(_)
qsToString(qs) ==
  IF qs = <<>> THEN ""
  ELSE IF Len(qs) = 1 THEN qs[1].k \o "=" \o qs[1].v
  ELSE qs[1].k \o "=" \o qs[1].v \o "&" \o qsToString(Tail(qs))

\* new URLSearchParams(query): every own property, converted to a string
RECURSIVE URLSearchParams(_)
URLSearchParams(query) ==
  IF query = <<>> THEN <<>>
  ELSE qsSet(URLSearchParams(SubSeq(query, 1, Len(query) - 1)),
             query[Len(query)].k, String(query[Len(query)].v))

\* the bodyParams loop: undefined and null values are skipped
RECURSIVE setBodyParams(_, _)
setBodyParams(qs, bodyParams) ==
  IF bodyParams = <<>> THEN qs
  ELSE LET p == Head(bodyParams)
       IN  setBodyParams(IF p.v.t = "undefined" THEN qs
                         ELSE qsSet(qs, p.k, String(p.v)),
                         Tail(bodyParams))

\* HMAC-SHA256 of the query string under the secret, as a term
signQuery(queryString, secret) ==
  "hmac(" \o secret \o "," \o queryString \o ")"

\* the signature is taken before the body parameters are added
binanceRequestMutant(args, now) ==
  LET qs0 == URLSearchParams(args.query)
      isSigned == args.apiSecret # ""
      qs1 == IF isSigned /\ ~qsHas(qs0, "timestamp")
             THEN qsSet(qs0, "timestamp", ToString(now)) ELSE qs0
      qs2 == setBodyParams(qs1, args.bodyParams)
      qs3 == IF isSigned
             THEN qsSet(qs2, "signature", signQuery(qsToString(qs1), args.apiSecret))
             ELSE qs2
  IN  [url |-> args.baseUrl \o args.path \o "?" \o qsToString(qs3),
       method |-> args.method,
       qs |-> qs3,
       headers |-> IF args.apiKey # ""
                   THEN <<[k |-> "X-MBX-APIKEY", v |-> args.apiKey]>> ELSE <<>>]

\* binanceRequest up to its fetch call: the request put on the wire.  A null
\* apiKey or apiSecret is the empty string (both are falsy).
binanceRequest(args, now) ==
  LET qs0 == URLSearchParams(args.query)
      isSigned == args.apiSecret # ""
      qs1 == IF isSigned /\ ~qsHas(qs0, "timestamp")
             THEN qsSet(qs0, "timestamp", ToString(now)) ELSE qs0
      qs2 == setBodyParams(qs1, args.bodyParams)
      qs3 == IF isSigned
             THEN qsSet(qs2, "signature", signQuery(qsToString(qs2), args.apiSecret))
             ELSE qs2
  IN  [url |-> args.baseUrl \o args.path \o "?" \o qsToString(qs3),
       method |-> args.method,
       qs |-> qs3,
       headers |-> IF args.apiKey # ""
                   THEN <<[k |-> "X-MBX-APIKEY", v |-> args.apiKey]>> ELSE <<>>]

getKlines(baseUrl, market, symbol, interval, limit, now) ==
  binanceRequest([baseUrl |-> baseUrl,
                  path |-> IF market = "futures" THEN "/fapi/v1/klines"
                           ELSE "/api/v3/klines",
                  method |-> "GET", apiKey |-> "", apiSecret |-> "",
                  query |-> <<[k |-> "symbol", v |-> JsStr(symbol)],
                              [k |-> "interval", v |-> JsStr(interval)],
                              [k |-> "limit", v |-> JsStr(String(JsNum(limit)))]>>,
                  bodyParams |-> <<>>], now)

spotAccount(baseUrl, apiKey, apiSecret, now) ==
  binanceRequest([baseUrl |-> baseUrl, path |-> "/api/v3/account",
                  method |-> "GET", apiKey |-> apiKey, apiSecret |-> apiSecret,
                  query |-> <<>>, bodyParams |-> <<>>], now)

futuresAccount(baseUrl, apiKey, apiSecret, now) ==
  binanceRequest([baseUrl |-> baseUrl, path |-> "/fapi/v2/account",
                  method |-> "GET", apiKey |-> apiKey, apiSecret |-> apiSecret,
                  query |-> <<>>, bodyParams |-> <<>>], now)

futuresPositionRisk(baseUrl, apiKey, apiSecret, symbol, now) ==
  binanceRequest([baseUrl |-> baseUrl, path |-> "/fapi/v2/positionRisk",
                  method |-> "GET", apiKey |-> apiKey, apiSecret |-> apiSecret,
                  query |-> IF symbol # "" THEN <<[k |-> "symbol", v |-> JsStr(symbol)]>>
                            ELSE <<>>,
                  bodyParams |-> <<>>], now)

futuresSetLeverage(baseUrl, apiKey, apiSecret, symbol, leverage, now) ==
  binanceRequest([baseUrl |-> baseUrl, path |-> "/fapi/v1/leverage",
                  method |-> "POST", apiKey |-> apiKey, apiSecret |-> apiSecret,
                  query |-> <<>>,
                  bodyParams |-> <<[k |-> "symbol", v |-> JsStr(symbol)],
                                   [k |-> "leverage", v |-> JsNum(leverage)]>>], now)

spotOrder(baseUrl, apiKey, apiSecret, params, now) ==
  binanceRequest([baseUrl |-> baseUrl, path |-> "/api/v3/order",
                  method |-> "POST", apiKey |-> apiKey, apiSecret |-> apiSecret,
                  query |-> <<>>, bodyParams |-> params], now)

futuresOrder(baseUrl, apiKey, apiSecret, params, now) ==
  binanceRequest([baseUrl |-> baseUrl, path |-> "/fapi/v1/order",
                  method |-> "POST", apiKey |-> apiKey, apiSecret |-> apiSecret,
                  query |-> <<>>, bodyParams |-> params], now)

\* the params object of an order call of runBot: an entry order, or a close
\* order with reduceOnly
orderParams(symbol, side, quantity, reduceOnly) ==
  <<[k |-> "symbol", v |-> JsStr(symbol)],
    [k |-> "side", v |-> JsStr(side)],
    [k |-> "type", v |-> JsStr("MARKET")],
    [k |-> "quantity", v |-> JsNum(quantity)]>>
  \o (IF reduceOnly THEN <<[k |-> "reduceOnly", v |-> JsBool(TRUE)]>> ELSE <<>>)

\* one exchange call of a tick: the worker's key pair of the bot's
\* environment (syncBots starts a loop only with both), the symbol of the
\* config, leverage 1..3, order quantities 1..3
RequestKinds == {"getKlines", "spotAccount", "futuresAccount",
                 "futuresPositionRisk", "futuresSetLeverage", "spotOrder",
                 "futuresOrder"}

IsFuturesCall(f) ==
  f \in {"futuresAccount", "futuresPositionRisk", "futuresSetLeverage", "futuresOrder"}

RequestInputs ==
  {[f |-> f, market |-> m, useTestnet |-> t, symbol |-> sy, leverage |-> lv,
    side |-> sd, quantity |-> q, reduceOnly |-> ro, now |-> now] :
     f \in RequestKinds, m \in {"spot", "futures"}, t \in BOOLEAN,
     sy \in {"BTCUSDT", "ETHUSDT"}, lv \in 1..3, sd \in {"BUY", "SELL"},
     q \in 1..3, ro \in BOOLEAN, now \in 0..MaxNow}

\* fields a call does not read are held at one value
RequestCalls ==
  {c \in RequestInputs :
     /\ c.f # "getKlines" => c.market = (IF IsFuturesCall(c.f) THEN "futures" ELSE "spot")
     /\ c.f # "futuresSetLeverage" => c.leverage = 1
     /\ c.f \notin {"spotOrder", "futuresOrder"} => c.side = "BUY" /\ c.quantity = 1
     /\ c.f # "futuresOrder" => ~c.reduceOnly
     /\ c.f \in {"spotAccount", "futuresAccount"} => c.symbol = "BTCUSDT"}

apiKeyOf(useTestnet) == IF useTestnet THEN "testKey" ELSE "mainKey"
apiSecretOf(useTestnet) == IF useTestnet THEN "testSecret" ELSE "mainSecret"

sendRequest(c) ==
  LET baseUrl == resolveBaseUrl(c.useTestnet)
      apiKey == apiKeyOf(c.useTestnet)
      apiSecret == apiSecretOf(c.useTestnet)
  IN  CASE c.f = "getKlines" ->
             getKlines(baseUrl, c.market, c.symbol, "1m", 200, c.now)
        [] c.f = "spotAccount" -> spotAccount(baseUrl, apiKey, apiSecret, c.now)
        [] c.f = "futuresAccount" -> futuresAccount(baseUrl, apiKey, apiSecret, c.now)
        [] c.f = "futuresPositionRisk" ->
             futuresPositionRisk(baseUrl, apiKey, apiSecret, c.symbol, c.now)
        [] c.f = "futuresSetLeverage" ->
             futuresSetLeverage(baseUrl, apiKey, apiSecret, c.symbol, c.leverage, c.now)
        [] c.f = "spotOrder" ->
             spotOrder(baseUrl, apiKey, apiSecret,
                       orderParams(c.symbol, c.side, c.quantity, FALSE), c.now)
        [] OTHER ->
             futuresOrder(baseUrl, apiKey, apiSecret,
                          orderParams(c.symbol, c.side, c.quantity, c.reduceOnly), c.now)

InitRequest ==
  /\ InitWorker
  /\ env = AllKeys
  /\ fkEnforced = TRUE
  /\ bots = <<>>
  /\ exch = InitExch
  /\ fnIn \in RequestCalls
  /\ fnOut = NoFn

ApplyRequest ==
  /\ fnIn.f \in RequestKinds
  /\ fnOut = NoFn
  /\ fnOut' = [f |-> fnIn.f, r |-> sendRequest(fnIn)]
  /\ UNCHANGED <<proc, env, fkEnforced, bots, botStates, runningBots,
                 botRuntimeData, loop, clock, exch, tickLog, ops, nextId, moves,
                 fnIn, ui>>

NextRequest == ApplyRequest

SpecRequest == InitRequest /\ [][NextRequest]_vars

\* =================================================================== claims
EntryActions == {"BUY", "SELL", "DRY_BUY", "DRY_SELL"}
CloseActions == {"CLOSE_STOP_LOSS", "CLOSE_TAKE_PROFIT", "DRY_CLOSE_STOP_LOSS",
                 "DRY_CLOSE_TAKE_PROFIT"}
OrderActions == EntryActions \cup CloseActions

\* C1: at most one Runtime Loop is running for any bot id at any time, under
\* every interleaving of reconciliations, config creation / deletion
\* (re-creation of a deleted id included) and loop crashes.
C1_OneLoopPerBot ==
  \A l1, l2 \in Loops :
    (l1 # l2 /\ Alive(l1) /\ Alive(l2)) => loop[l1].botId # loop[l2].botId

\* C2: once a reconciliation has observed that a bot's config was deleted,
\* the loop of that bot sends no further order.
C2_NoOrderAfterDeletionObserved ==
  \A l \in Loops : ~tickLog[l].orphanOrder

\* C3: a tick whose refreshed config has enabled = false persists a DISABLED
\* snapshot and does nothing else: no exchange request, no order, no change
\* of the Store's bots, of the exchange or of the runtime counters.
C3_DisabledTickOnlyWritesSnapshot ==
  [][\A l \in Loops :
       LET id == loop[l].botId
       IN  (/\ loop'[l].tickNo = loop[l].tickNo + 1
            /\ id \in DOMAIN bots
            /\ ~bots[id].enabled)
           => /\ loop'[l].pc = "sleep"
              /\ id \in DOMAIN botStates'
              /\ botStates'[id].status = "DISABLED"
              /\ botStates'[id].by = l
              /\ botStates'[id].tick = loop'[l].tickNo
              /\ tickLog'[l].reqs = {}
              /\ ~tickLog'[l].order.sent
              /\ bots' = bots
              /\ exch' = exch
              /\ id \in DOMAIN botRuntimeData'
              /\ LET before == IF id \in DOMAIN botRuntimeData
                               THEN botRuntimeData[id] ELSE initBotRuntimeValue
                     after == botRuntimeData'[id]
                 IN  /\ after.candleCount = before.candleCount
                     /\ after.lastOrderCandle = before.lastOrderCandle
                     /\ after.dailyLoss = before.dailyLoss
                     /\ after.totalLoss = before.totalLoss
    ]_vars

\* C3 witness: a disabled tick of a loop whose tick counter had advanced
C3_Witness ==
  \E l \in Loops :
    /\ tickLog[l].done /\ tickLog[l].refreshed /\ ~tickLog[l].config.enabled
    /\ tickLog[l].status = "DISABLED"
    /\ tickLog[l].rt0.candleCount > 0
    /\ botRuntimeData[loop[l].botId].candleCount = tickLog[l].rt0.candleCount

\* C4: on a tick of an enabled bot that fetched the account balance W, an
\* accumulator at or above its limit W * percent / 100 gives a BLOCKED
\* snapshot whose decision record has action NONE, and accumulators below
\* both limits give a tick that is not BLOCKED.
C4_LossBreaker ==
  \A l \in Loops :
    LET g == tickLog[l]
        over == \/ g.atCheck.dailyLoss * 1000 >= g.wallet * g.config.maxDailyLossPercent
                \/ g.atCheck.totalLoss * 1000 >= g.wallet * g.config.maxTotalLossPercent
    IN  (g.done /\ g.config.enabled /\ "futuresAccount" \in g.reqs)
        => /\ over => (g.status = "BLOCKED" /\ g.snapDecision.action = "NONE")
           /\ ~over => g.status # "BLOCKED"

BlockedStep(l) ==
  ~tickLog[l].done /\ tickLog'[l].done /\ tickLog'[l].status = "BLOCKED"

\* C5 (as stated): a BLOCKED tick issues no order and leaves the last-order
\* tick index and both loss accumulators unchanged.
C5_BlockedTickFrozen ==
  [][\A l \in Loops :
       BlockedStep(l)
       => LET before == botRuntimeData[loop[l].botId]
              after == botRuntimeData'[loop[l].botId]
          IN  /\ ~tickLog'[l].order.sent
              /\ "order" \notin tickLog'[l].reqs
              /\ exch' = exch
              /\ after.lastOrderCandle = before.lastOrderCandle
              /\ after.totalLoss = before.totalLoss
              /\ after.dailyLoss = before.dailyLoss
    ]_vars

\* C5 (amended): a BLOCKED tick issues no order and leaves the last-order
\* tick index and the cumulative loss unchanged; the daily loss is unchanged
\* too unless more than 24 hours have passed since its last reset, in which
\* case the tick resets it to 0.
C5_BlockedTickFrozenButDailyReset ==
  [][\A l \in Loops :
       BlockedStep(l)
       => LET before == botRuntimeData[loop[l].botId]
              after == botRuntimeData'[loop[l].botId]
          IN  /\ ~tickLog'[l].order.sent
              /\ "order" \notin tickLog'[l].reqs
              /\ exch' = exch
              /\ after.lastOrderCandle = before.lastOrderCandle
              /\ after.totalLoss = before.totalLoss
              /\ after.dailyLoss = IF clock - before.dailyResetTime > DayMs
                                   THEN 0 ELSE before.dailyLoss
    ]_vars

\* C5 witness: a BLOCKED tick on an open position whose stop-loss fires and
\* whose last order was at an earlier tick
C5_Witness ==
  \E l \in Loops :
    /\ tickLog[l].done /\ tickLog[l].status = "BLOCKED"
    /\ tickLog[l].slTp.fires
    /\ tickLog[l].pos.positionAmt # 0
    /\ tickLog[l].rt1.lastOrderCandle < tickLog[l].rt1.candleCount

\* C6: in either market kind, with cooldownCandles = c >= 2, the tick that
\* follows a tick with an order places no entry order.
C6_Cooldown ==
  \A l \in Loops :
    LET g == tickLog[l]
    IN  (/\ g.config.enabled /\ g.config.cooldownCandles >= 2
         /\ g.prevDecision.action \in OrderActions
         /\ g.prevDecision.at = g.tickNo - 1)
        => g.decision.action \notin EntryActions

PositionOpen(g) ==
  IF g.config.market = "futures"
  THEN "positionRisk" \in g.reqs /\ g.pos.positionAmt # 0
  ELSE g.config.dryRun /\ g.vb0.has /\ g.vb0.currentBaseBalance > 0

\* C7: in either market kind, with preventDuplicateOrders = true, no entry
\* order is placed in a tick in which a position is already open.
C7_NoDuplicateEntry ==
  \A l \in Loops :
    LET g == tickLog[l]
    IN  (g.config.enabled /\ g.config.preventDuplicateOrders /\ PositionOpen(g))
        => g.decision.action \notin EntryActions

\* C8: for an open position with entry e > 0 and mark m > 0 the check yields
\* STOP_LOSS iff pnl% <= -stopLossPercent, TAKE_PROFIT iff
\* pnl% >= takeProfitPercent, and nothing otherwise, with the configured
\* percentages.
C8_SlTpThresholds ==
  fnOut # NoFn =>
    LET p == fnIn.position
        pnl == (IF p.positionAmt > 0 THEN 1 ELSE -1) * (p.markPrice - p.entryPrice) * 1000
        sl == pnl <= -(fnIn.stopLossPercent * p.entryPrice)
        tp == pnl >= fnIn.takeProfitPercent * p.entryPrice
    IN  /\ (fnOut.r.fires /\ fnOut.r.reason = "STOP_LOSS") <=> sl
        /\ (fnOut.r.fires /\ fnOut.r.reason = "TAKE_PROFIT") <=> tp
        /\ fnOut.r.fires <=> (sl \/ tp)

\* C9: whenever a tick is not BLOCKED and the stop-loss / take-profit check
\* fires on the open position, the tick's action is the close of the full
\* absolute position size, tagged with the check's reason; a live bot sends
\* it as a reduce-only order on the opposite side, whatever the signal, the
\* cooldown and duplicate prevention say, and no entry is decided.
C9_SlTpForcesClose ==
  \A l \in Loops :
    LET g == tickLog[l]
        check == checkStopLossTakeProfit(g.pos, g.config)
        size == Abs(g.pos.positionAmt)
    IN  ("positionRisk" \in g.reqs /\ g.status # "BLOCKED" /\ check.fires)
        => /\ g.decision.action = CloseAction(g.config.dryRun, check.reason)
           /\ g.decision.reason = check.reason
           /\ g.decision.qty = size
           /\ g.config.dryRun => ~g.order.sent
           /\ ~g.config.dryRun =>
                g.order = [sent |-> TRUE,
                           side |-> IF g.pos.positionAmt > 0 THEN "SELL" ELSE "BUY",
                           qty |-> size, reduceOnly |-> TRUE]

\* C9 witness: a live stop-loss close sent while the signal is LONG, the
\* cooldown has not elapsed and duplicate prevention is on
C9_Witness ==
  \E l \in Loops :
    LET g == tickLog[l]
    IN  /\ g.done /\ g.status = "RUNNING"
        /\ ~g.config.dryRun /\ g.order.sent /\ g.order.reduceOnly
        /\ g.decision.action = "CLOSE_STOP_LOSS"
        /\ g.signal = "LONG" /\ g.pos.positionAmt > 0
        /\ g.config.preventDuplicateOrders
        /\ ~checkCooldown(g.atCheck, g.config)

\* C10: in either market kind, a simulated order of quantity q at price p
\* changes the persisted virtual ledger by quote -= q*p, base += q for a BUY
\* and by quote += q*p, base -= q for a SELL.
C10_VirtualLedger ==
  \A l \in Loops :
    LET g == tickLog[l]
        cost == g.decision.qty * g.lastPrice
    IN  (g.done /\ g.status = "RUNNING" /\ g.refreshed /\ g.vb0.has)
        => /\ g.decision.action = "DRY_BUY" =>
                /\ g.vb1.currentQuoteBalance = g.vb0.currentQuoteBalance - cost
                /\ g.vb1.currentBaseBalance = g.vb0.currentBaseBalance + g.decision.qty
           /\ g.decision.action = "DRY_SELL" =>
                /\ g.vb1.currentQuoteBalance = g.vb0.currentQuoteBalance + cost
                /\ g.vb1.currentBaseBalance = g.vb0.currentBaseBalance - g.decision.qty

MutatingRequests == {"leverage", "order"}

\* C11: in a tick of a bot with dryRun = true no state-mutating request (an
\* order placement or a leverage change) is sent to the exchange.
C11_DryRunSendsNoMutation ==
  \A l \in Loops :
    tickLog[l].config.dryRun => tickLog[l].reqs \cap MutatingRequests = {}

\* C12: a tick in which an exchange fetch or an order request failed ends
\* with the ERROR snapshot persisted and with the loop still running (asleep
\* until its next tick), never with the loop terminated.
C12_TickFailureKeepsLoop ==
  \A l \in Loops :
    (tickLog[l].failed /\ tickLog[l].done)
      => /\ tickLog[l].status = "ERROR"
         /\ loop[l].pc # "crashed"

\* a usable credential set: the API key of an environment with its secret
Usable(e) ==
  IF e = "testnet" THEN env.testnetKey /\ env.testnetSecret
  ELSE env.mainnetKey /\ env.mainnetSecret

\* C13: a process started with no usable credential set in either
\* environment ends in FATAL: it never runs the scheduler and starts no loop.
C13_NoCredentialsIsFatal ==
  (proc # "init" /\ \A e \in Envs : ~Usable(e))
    => /\ proc = "fatal"
       /\ runningBots = {}
       /\ \A l \in Loops : loop[l].pc = "none"

Started(l) == loop'[l].pc = "new" /\ loop[l].pc # "new"

\* C14: in every step a bot whose configured environment lacks a key or a
\* secret gets no loop and is not entered into runningBots, the process keeps
\* running, and a reconciliation that starts or drops anything starts a loop
\* for every other bot that has credentials and no loop yet.
C14_MissingCredentialsSkipped ==
  [][\A id \in DOMAIN bots :
       ~Usable(resolveBaseUrl(bots[id].useTestnet))
       => /\ \A l \in Loops : Started(l) => loop'[l].botId # id
          /\ id \notin runningBots => id \notin runningBots'
          /\ proc = "running" => proc' = "running"
          /\ (proc' = "running" /\ (proc = "init" \/ \E l \in Loops : Started(l)))
             => \A other \in DOMAIN bots :
                  (Usable(resolveBaseUrl(bots[other].useTestnet))
                   /\ other \notin runningBots)
                  => \E l \in Loops : Started(l) /\ loop'[l].botId = other
    ]_vars

\* C14 witness: the process is running, a bot without credentials has no
\* loop, and another bot has completed a tick
C14_Witness ==
  /\ proc = "running"
  /\ \E id \in DOMAIN bots :
       /\ ~Usable(resolveBaseUrl(bots[id].useTestnet))
       /\ id \notin runningBots
       /\ \A l \in Loops : Alive(l) => loop[l].botId # id
  /\ \E l \in Loops : Alive(l) /\ tickLog[l].done /\ loop[l].botId \in DOMAIN bots
                       /\ Usable(resolveBaseUrl(bots[loop[l].botId].useTestnet))

SignedRequests ==
  {"leverage", "futuresAccount", "positionRisk", "spotAccount", "order"}

\* C15: every signed request of a tick goes to the endpoint of the bot's
\* currently configured environment with the credentials of that same
\* environment, also after useTestnet was edited while the loop is running.
C15_KeysMatchEndpoint ==
  \A l \in Loops :
    tickLog[l].reqs \cap SignedRequests # {}
      => loop[l].keyEnv = resolveBaseUrl(tickLog[l].config.useTestnet)

\* C16: the step that ends a tick changes nothing of the bot's stored row
\* but the virtual ledger, so a config edit committed while the tick was in
\* progress is not overwritten by the loop's write-back.
C16_EditNotOverwritten ==
  [][\A l \in Loops :
       LET id == loop[l].botId
       IN  (tickLog'[l].done /\ ~tickLog[l].done /\ id \in DOMAIN bots)
           => /\ id \in DOMAIN bots'
              /\ [bots'[id] EXCEPT !.virtualBalance = bots[id].virtualBalance]
                   = bots[id]
    ]_vars

\* a tick that ran the loss breaker after an earlier BLOCKED tick of the same
\* loop, with the loss percentages that tick had
AfterBlock(g) ==
  /\ g.blk.is /\ g.done /\ "futuresAccount" \in g.reqs
  /\ g.config.maxDailyLossPercent = g.blk.maxDaily
  /\ g.config.maxTotalLossPercent = g.blk.maxTotal

ReachedEntry(g) ==
  IF g.config.market = "futures"
  THEN /\ "positionRisk" \in g.reqs
       /\ g.status # "BLOCKED"
       /\ ~(g.slTp.fires /\ g.pos.positionAmt # 0)
  ELSE g.config.dryRun /\ g.signal # "none"

\* the open position the tick saw: the exchange position of a futures bot,
\* the base holdings of a simulated spot bot
PositionAmt(g) ==
  IF g.config.market = "futures" THEN g.pos.positionAmt
  ELSE g.vb0.currentBaseBalance

QtyValid(g) ==
  g.qty >= g.config.quantityStep /\ g.qty * g.lastPrice >= MinNotional

\* at least cooldownCandles ticks have elapsed since the last order
CooldownOk(g) ==
  \/ g.config.cooldownCandles = 0
  \/ IF g.config.market = "futures" THEN checkCooldown(g.atCheck, g.config)
     ELSE g.prevDecision.action \in OrderActions
            => g.tickNo - g.prevDecision.at >= g.config.cooldownCandles

Duplicate(g) == PositionAmt(g) # 0 /\ g.config.preventDuplicateOrders

\* C18: at the entry / exit decision with no rejection applying, signal LONG
\* without a long position gives BUY, signal SHORT without a short position
\* gives SELL, and every other case gives action NONE and no order.
C18_EntryDecision ==
  \A l \in Loops :
    LET g == tickLog[l]
    IN  (ReachedEntry(g) /\ QtyValid(g) /\ CooldownOk(g) /\ ~Duplicate(g))
        => IF g.signal = "LONG" /\ PositionAmt(g) <= 0
           THEN g.decision.action \in {"BUY", "DRY_BUY"}
           ELSE IF g.signal = "SHORT" /\ PositionAmt(g) >= 0
           THEN g.decision.action \in {"SELL", "DRY_SELL"}
           ELSE g.decision.action = "NONE" /\ ~g.order.sent

\* C19: a completed tick that reached the entry / exit decision persists a
\* decision record made in that tick, and a rejected entry is recorded with
\* action NONE and the first applicable reason of QTY_INVALID, COOLDOWN,
\* POSITION_EXISTS.
C19_DecisionRecorded ==
  \A l \in Loops :
    LET g == tickLog[l]
    IN  (ReachedEntry(g) /\ g.done /\ g.status # "crash")
        => /\ g.snapDecision.action # "null"
           /\ g.snapDecision.at = g.tickNo
           /\ ~(QtyValid(g) /\ CooldownOk(g) /\ ~Duplicate(g))
              => /\ g.snapDecision.action = "NONE"
                 /\ g.snapDecision.reason =
                      IF ~QtyValid(g) THEN "QTY_INVALID"
                      ELSE IF ~CooldownOk(g) THEN "COOLDOWN"
                      ELSE "POSITION_EXISTS"

\* C20: every bot configuration in the Store has orderQuoteAmount >= 10,
\* fastPeriod < slowPeriod, stopLossPercent > 0, takeProfitPercent > 0 and
\* cooldownCandles >= 0.
C20_StoredConfigsValid ==
  \A id \in DOMAIN bots :
    LET bot == rowToBot(bots[id])
    IN  /\ bot.orderQuoteAmount >= 100
        /\ bot.fastPeriod < bot.slowPeriod
        /\ bot.stopLossPercent > 0
        /\ bot.takeProfitPercent > 0
        /\ bot.cooldownCandles >= 0

RealTrade(c) == ~c.useTestnet /\ ~c.dryRun

\* C21: a mainnet, non-simulated configuration is stored only by the
\* confirmed save of the dashboard's two-step dialog, and a bot that was not
\* stored before is stored with dryRun = TRUE.
C21_RealTradeOnlyAfterConfirmation ==
  [][\A id \in DOMAIN bots' :
       /\ (RealTrade(bots'[id]) /\ (id \notin DOMAIN bots \/ ~RealTrade(bots[id])))
            => id \in ui'.confirmed
       /\ id \notin DOMAIN bots => bots'[id].dryRun]_vars

InTick(l) == loop[l].pc \in {"fetch", "order"}

\* C22: within one bot id ticks never overlap: while one loop of the id is
\* inside a tick (its snapshot not yet persisted), no other loop of the same
\* id is inside a tick.
C22_TicksNeverOverlap ==
  \A l1, l2 \in Loops :
    (l1 # l2 /\ InTick(l1) /\ InTick(l2)) => loop[l1].botId # loop[l2].botId

Fresh(rt) ==
  /\ rt.candleCount = 0 /\ rt.lastOrderCandle = 0
  /\ rt.dailyLoss = 0 /\ rt.totalLoss = 0

\* C23: the first tick of every loop finds the fresh runtime state: tick
\* counter 0, last-order tick 0, both loss accumulators 0; nothing of an
\* earlier or of another loop of the same id is carried into it.
C23_LoopStartsFresh ==
  \A l \in Loops : tickLog[l].tickNo = 1 => Fresh(tickLog[l].rt0)

RECURSIVE TrailingSum(_, _)
TrailingSum(closes, k) ==
  IF k = 0 THEN 0
  ELSE closes[Len(closes) - k + 1] + TrailingSum(closes, k - 1)

\* mean of the last fp closes minus mean of the last sp closes, times fp * sp
MeanDiff(in) ==
  TrailingSum(in.closes, in.fastPeriod) * in.slowPeriod
    - TrailingSum(in.closes, in.slowPeriod) * in.fastPeriod

SignalApplied == fnIn.f = "computeSignal" /\ fnOut.f = "computeSignal"

\* C24: for a close series at least slowPeriod long and 1 <= fastPeriod <
\* slowPeriod, the signal is LONG iff the mean of the last fastPeriod closes
\* is greater than the mean of the last slowPeriod closes, SHORT iff it is
\* smaller, HOLD iff the two are equal.
C24_SignalComparesTrailingMeans ==
  (/\ SignalApplied
   /\ Len(fnIn.closes) >= fnIn.slowPeriod
   /\ 1 <= fnIn.fastPeriod /\ fnIn.fastPeriod < fnIn.slowPeriod)
  => /\ fnOut.r.signal = "LONG" <=> MeanDiff(fnIn) > 0
     /\ fnOut.r.signal = "SHORT" <=> MeanDiff(fnIn) < 0
     /\ fnOut.r.signal = "HOLD" <=> MeanDiff(fnIn) = 0

C24_Witness ==
  /\ SignalApplied
  /\ fnIn.closes = <<1, 2, 3, 100>> /\ fnIn.fastPeriod = 2 /\ fnIn.slowPeriod = 3
  /\ fnOut.r.signal = "LONG"

\* C25: for a close series shorter than slowPeriod the signal is HOLD and
\* both reported averages, fast and slow, are undefined.
C25_ShortSeriesHoldsUndefined ==
  (SignalApplied /\ Len(fnIn.closes) < fnIn.slowPeriod)
  => /\ fnOut.r.signal = "HOLD"
     /\ fnOut.r.fast.isNull
     /\ fnOut.r.slow.isNull

\* C25 as amended: for a close series shorter than slowPeriod the signal is
\* HOLD and the slow average is undefined; the fast average is undefined
\* exactly when the series is also shorter than fastPeriod, and is otherwise
\* the mean of the last fastPeriod closes.
C25_ShortSeriesHolds ==
  (SignalApplied /\ Len(fnIn.closes) < fnIn.slowPeriod)
  => /\ fnOut.r.signal = "HOLD"
     /\ fnOut.r.slow.isNull
     /\ fnOut.r.fast.isNull <=> Len(fnIn.closes) < fnIn.fastPeriod
     /\ ~fnOut.r.fast.isNull =>
          /\ fnOut.r.fast.sum = TrailingSum(fnIn.closes, fnIn.fastPeriod)
          /\ fnOut.r.fast.n = fnIn.fastPeriod

C25_Witness ==
  /\ SignalApplied
  /\ fnIn.closes = <<3, 100>> /\ fnIn.fastPeriod = 1 /\ fnIn.slowPeriod = 3
  /\ fnOut.r.signal = "HOLD"
  /\ ~fnOut.r.fast.isNull /\ fnOut.r.slow.isNull

StrictlyIncreasing(q) == \A i \in 1..(Len(q) - 1) : q[i] < q[i + 1]

\* C26: for fastPeriod < slowPeriod and a strictly increasing close series
\* at least slowPeriod long, the signal is LONG.
C26_IncreasingSeriesIsLong ==
  (/\ SignalApplied
   /\ fnIn.fastPeriod < fnIn.slowPeriod
   /\ Len(fnIn.closes) >= fnIn.slowPeriod
   /\ StrictlyIncreasing(fnIn.closes))
  => fnOut.r.signal = "LONG"

C26_Witness ==
  /\ SignalApplied
  /\ fnIn.closes = <<1, 2, 3>> /\ fnIn.fastPeriod = 2 /\ fnIn.slowPeriod = 3
  /\ fnOut.r.signal = "LONG"

\* C27: a tick is rejected with COOLDOWN only when the bot has placed an
\* order before: with no order recorded (last-order tick 0), the first tick
\* of a fresh loop included, COOLDOWN is never the reason.
C27_NoCooldownBeforeFirstOrder ==
  \A l \in Loops :
    tickLog[l].decision.reason = "COOLDOWN" => tickLog[l].atCheck.lastOrderCandle # 0

CountedBefore(g) ==
  g.prevDecision.action \in CloseActions /\ g.prevDecision.reason = "STOP_LOSS"

\* C28: the loss of a losing position is added to the accumulators at most
\* once: a tick that finds the position still open after the previous tick
\* closed it for STOP_LOSS (and counted its loss) adds nothing again, in
\* dry-run as in live mode.
C28_LossCountedOnce ==
  \A l \in Loops :
    LET g == tickLog[l]
    IN  (g.done /\ CountedBefore(g) /\ g.pos.positionAmt # 0)
        => /\ g.rt1.totalLoss <= g.rt0.totalLoss
           /\ g.rt1.dailyLoss <= g.rt0.dailyLoss

\* C29: in simulated mode neither virtual balance ever becomes negative: no
\* stored ledger has a negative quote or base balance.
C29_VirtualBalancesNonNegative ==
  \A id \in DOMAIN bots :
    /\ bots[id].virtualBalance.currentQuoteBalance >= 0
    /\ bots[id].virtualBalance.currentBaseBalance >= 0

\* C30: a tick is BLOCKED only when an accumulator is above zero: with daily
\* and cumulative loss both zero the bot is never BLOCKED, whatever the
\* account balance, zero included.
C30_ZeroLossNeverBlocked ==
  \A l \in Loops :
    LET g == tickLog[l]
    IN  (g.done /\ g.status = "BLOCKED")
        => (g.atCheck.dailyLoss > 0 \/ g.atCheck.totalLoss > 0)

\* C31: a tick issues at most one order request to the exchange: one SL/TP
\* close or one entry order, never both and never two of a kind.
C31_OneOrderPerTick ==
  \A l \in Loops : Len(tickLog[l].orders) <= 1

\* C31 witness: a live futures tick whose stop-loss close was sent while a
\* SHORT signal on the same long position would pass every entry check
C31_Witness ==
  \E l \in Loops :
    LET g == tickLog[l]
    IN  /\ g.done /\ g.status = "RUNNING"
        /\ g.slTp.fires /\ g.pos.positionAmt > 0 /\ g.signal = "SHORT"
        /\ QtyValid(g) /\ CooldownOk(g) /\ ~g.config.preventDuplicateOrders
        /\ Len(g.orders) = 1 /\ g.orders[1].reduceOnly

\* C32: a tick whose live order request failed ends as ERROR, with the
\* last-order tick index and both loss accumulators at the values they had
\* before the tick.
C32_FailedOrderLeavesCounters ==
  \A l \in Loops :
    LET g == tickLog[l]
    IN  (g.done /\ g.failed /\ g.orders # <<>>)
        => /\ g.status = "ERROR"
           /\ g.rt1.lastOrderCandle = g.rt0.lastOrderCandle
           /\ g.rt1.dailyLoss = g.rt0.dailyLoss
           /\ g.rt1.totalLoss = g.rt0.totalLoss

\* the step that completes a tick with an executed SL/TP close (the fill of
\* the close order of a live bot, the simulated close of a dry-run bot)
CloseStep(l) ==
  /\ ~tickLog[l].done /\ tickLog'[l].done
  /\ tickLog'[l].status = "RUNNING"
  /\ tickLog'[l].decision.action \in CloseActions

\* what closing the bot's position at the current mark price loses or gains
ClosePnl(l) ==
  unRealizedProfit(exch.pos[resolveBaseUrl(loop[l].botConfig.useTestnet)], exch.mark)

\* C33: an executed SL/TP close with negative P&L raises the daily and the
\* cumulative accumulator by the loss that close realizes, one with
\* non-negative P&L changes neither, and no other step changes them except
\* the 24-hour reset of the daily one.
C33_AccumulatorsTrackRealizedLoss ==
  [][/\ \A l \in Loops :
          CloseStep(l)
          => LET g == tickLog'[l]
                 after == botRuntimeData'[loop[l].botId]
                 loss == IF g.slTp.pnlNeg THEN Abs(ClosePnl(l)) ELSE 0
             IN  /\ after.totalLoss = g.atCheck.totalLoss + loss
                 /\ after.dailyLoss = g.atCheck.dailyLoss + loss
     /\ \A id \in DOMAIN botRuntimeData :
          (\A l \in Loops : loop[l].botId = id => ~CloseStep(l))
          => LET before == botRuntimeData[id]
                 after == botRuntimeData'[id]
             IN  /\ after.totalLoss = before.totalLoss
                 /\ \/ after.dailyLoss = before.dailyLoss
                    \/ /\ after.dailyLoss = 0
                       /\ clock - before.dailyResetTime > DayMs
    ]_vars

\* the step in which a tick runs the loss breaker (the futures branch after
\* its account and position fetches)
BreakerStep(l) ==
  /\ loop[l].pc = "fetch"
  /\ "positionRisk" \notin tickLog[l].reqs
  /\ "positionRisk" \in tickLog'[l].reqs

C35_QuantityFloorAndRejection ==
  \A l \in Loops :
    LET g == tickLog[l]
        step == g.config.quantityStep
    IN  ReachedEntry(g)
        => /\ g.qty % step = 0
           /\ g.qty * g.lastPrice <= Max(0, g.config.orderQuoteAmount)
           /\ (g.qty + step) * g.lastPrice > Max(0, g.config.orderQuoteAmount)
           /\ ~QtyValid(g) => /\ g.decision.action = "NONE"
                              /\ g.decision.reason = "QTY_INVALID"
                              /\ ~g.order.sent

\* the operation parameters of a call, as they must appear in the request
OperationParams(c) ==
  CASE c.f = "futuresPositionRisk" -> {[k |-> "symbol", v |-> c.symbol]}
    [] c.f = "futuresSetLeverage" ->
         {[k |-> "symbol", v |-> c.symbol], [k |-> "leverage", v |-> ToString(c.leverage)]}
    [] c.f \in {"spotOrder", "futuresOrder"} ->
         {[k |-> "symbol", v |-> c.symbol], [k |-> "side", v |-> c.side],
          [k |-> "type", v |-> "MARKET"], [k |-> "quantity", v |-> ToString(c.quantity)]}
         \cup (IF c.reduceOnly THEN {[k |-> "reduceOnly", v |-> "true"]} ELSE {})
    [] OTHER -> {}

RequestSent == fnOut # NoFn /\ fnOut.f \in RequestKinds

\* C36: every authenticated request (account, positions, leverage, order)
\* carries a timestamp, a signature over all of its other parameters that is
\* its last parameter, and the API key header; a candle request carries no
\* signature, no timestamp and no API key.
C36_SignedRequests ==
  RequestSent =>
    LET qs == fnOut.r.qs
        n == Len(qs)
        signed == SubSeq(qs, 1, n - 1)
    IN  IF fnOut.f = "getKlines"
        THEN /\ ~qsHas(qs, "signature") /\ ~qsHas(qs, "timestamp")
             /\ fnOut.r.headers = <<>>
        ELSE /\ n >= 2
             /\ qs[n].k = "signature"
             /\ ~qsHas(signed, "signature")
             /\ \E i \in 1..(n - 1) :
                  qs[i] = [k |-> "timestamp", v |-> ToString(fnIn.now)]
             /\ \A p \in OperationParams(fnIn) : \E i \in 1..(n - 1) : qs[i] = p
             /\ qs[n].v = signQuery(qsToString(signed), apiSecretOf(fnIn.useTestnet))
             /\ fnOut.r.headers =
                  <<[k |-> "X-MBX-APIKEY", v |-> apiKeyOf(fnIn.useTestnet)]>>

\* C36 witness: a futures stop-loss close order, with its five operation
\* parameters and the timestamp under the signature
C36_Witness ==
  /\ RequestSent
  /\ fnOut.f = "futuresOrder" /\ fnIn.reduceOnly
  /\ Len(fnOut.r.qs) = 7
  /\ fnOut.r.qs[7].k = "signature"
  /\ qsHas(SubSeq(fnOut.r.qs, 1, 6), "reduceOnly")

LiveLoopOf(id) == \E l \in Loops : Alive(l) /\ loop[l].botId = id

\* the bot's loop has terminated abnormally and no loop of the id is left
Terminated(id) ==
  /\ \E l \in Loops : loop[l].pc = "crashed" /\ loop[l].botId = id
  /\ ~LiveLoopOf(id)

\* C37: an id is never left marked as running without a live loop, and a
\* reconciliation that finds a bot whose loop has terminated abnormally, whose
\* config exists and whose credentials resolve starts a new loop for it.
C37_CrashedLoopRestarted ==
  [][/\ \A id \in runningBots' : LiveLoopOf(id)'
     /\ \A id \in DOMAIN bots :
          (Terminated(id) /\ hasKeys(bots[id].useTestnet))
          => /\ id \notin runningBots
             /\ SyncBots => \E l \in Loops :
                              /\ loop'[l].pc = "new" /\ loop'[l].botId = id
                              /\ id \in runningBots'
    ]_vars

\* C37 witness: a new loop runs for an id whose earlier loop crashed
C37_Witness ==
  \E id \in DOMAIN bots, l1, l2 \in Loops :
    /\ loop[l1].pc = "crashed" /\ loop[l1].botId = id
    /\ Alive(l2) /\ loop[l2].botId = id
    /\ id \in runningBots
    /\ hasKeys(bots[id].useTestnet)

====
